---- MODULE Spec2Model ----
(***************************************************************************)
(* Model of the VRL compiler core: construction of a function call         *)
(* (lib/vrl/compiler/src/expression/function_call.rs), its static type,    *)
(* and the two execution backends (tree-walking resolve and the bytecode   *)
(* emitted by compile_to_vm) for Noop, Array, Unary and FunctionCall; and   *)
(* of the request pipeline of the Datadog traces sink                      *)
(* (src/sinks/datadog/traces/sink.rs).                                     *)
(***************************************************************************)
EXTENDS Integers, Sequences, FiniteSets, TLC

VARIABLES
    pc,        \* position of the compilation or of the execution under way
    call,      \* the inputs new() was called with
    result,    \* what new() returned
    td,        \* what type_def() of the constructed call returned
    expr,      \* the expression node executed on both backends
    context,   \* the runtime context both backends start from
    resolved,  \* what resolve() returned, and the context it left
    vm,        \* the bytecode machine: program, stacks, context, outcome
    external,  \* the side-channel ExternalEnv holds
    session,   \* one compilation: how many calls were made, built and emitted
    hooked,    \* what the function's hook of the last call was given and left
    diagnostic, \* the labels and notes of the error the last call returned
    sink       \* the traces sink: the requests built, handed on and dropped

sessionVars == <<external, session, hooked, diagnostic, sink>>

vars == <<pc, call, result, td, expr, context, resolved, vm, sessionVars>>

-----------------------------------------------------------------------------
(* Bounds of the model.                                                    *)

\* Longest written argument list of a call.
MaxArgs == 3

\* Longest array literal executed.
MaxElems == 3

-----------------------------------------------------------------------------
(* Kind and TypeDef.                                                       *)

\* A Kind is a set of value shapes.
Shapes == {"integer", "bytes"}

INTEGER == {"integer"}

BYTES == {"bytes"}

\* self.intersects(other): the shapes overlap at all.
intersects(self, other) == self \cap other # {}

\* self.is_superset(other): other's shapes are fully contained in self.
is_superset(self, other) == other \subseteq self

\* TypeDef: a Kind plus the fallible and abortable flags.
TypeDefOf(kind, fallible) ==
    [kind |-> kind, fallible |-> fallible, abortable |-> FALSE]

with_fallibility(type_def, fallible) ==
    [type_def EXCEPT !.fallible = fallible]

\* abortable() sets abortable and clears ordinary fallibility.
abortable(type_def) ==
    [type_def EXCEPT !.abortable = TRUE, !.fallible = FALSE]

is_fallible(type_def) == type_def.fallible

is_abortable(type_def) == type_def.abortable

-----------------------------------------------------------------------------
(* The function registry.                                                  *)

NoKeyword == "-"

Param(keyword, kind, required) ==
    [keyword |-> keyword, kind |-> kind, required |-> required]

\* TestFn of the unit tests: three optional integer parameters.
TestFnParameters ==
    << Param("one", INTEGER, FALSE),
       Param("two", INTEGER, FALSE),
       Param("three", INTEGER, FALSE) >>

\* A function of two required integer parameters.
NeedFnParameters ==
    << Param("one", INTEGER, TRUE),
       Param("two", INTEGER, TRUE) >>

\* funcs: &[Box<dyn Function>], the ordered registry handed to new().
funcs ==
    << [identifier |-> "test", parameters |-> TestFnParameters],
       [identifier |-> "need", parameters |-> NeedFnParameters] >>

\* Identifiers a call may name: the registered ones and an unregistered one.
Idents == {"test", "need", "nope"}

\* Keywords a written argument may carry: none, a declared one, an undeclared one.
Keywords == {NoKeyword, "one", "two", "three", "four"}

\* What the function's compile() hook and the inner expression it returns do:
\* an infallible inner expression of null Kind, a fallible one, an infallible
\* one of integer Kind, a compile error, or an inner expression whose
\* update_state fails.
HookOutcomes ==
    {"infallible", "fallible", "integer", "compile_error", "update_error"}

\* Node<FunctionArgument>: optional keyword, and the static TypeDef of its
\* expression.  An argument is identified by its position in the written list.
Argument(keyword, kind, fallible) ==
    [keyword |-> keyword, kind |-> kind, fallible |-> fallible]

ArgumentTypes ==
    { <<INTEGER, FALSE>>, <<Shapes, FALSE>>, <<BYTES, FALSE>>,
      <<INTEGER, TRUE>>, <<BYTES, TRUE>> }

Arguments ==
    { Argument(k, t[1], t[2]) : k \in Keywords, t \in ArgumentTypes }

ArgumentLists == UNION { [1..n -> Arguments] : n \in 0..MaxArgs }

-----------------------------------------------------------------------------
(* ArgumentList: keyword -> bound argument (0: no argument bound).         *)

AllKeywords == (Keywords \ {NoKeyword}) \cup {"pattern", "value"}

EmptyList == [k \in AllKeywords |-> 0]

\* ArgumentList::insert(keyword, expr): a map insert.
insert(list, keyword, arg) == [list EXCEPT ![keyword] = arg]

\* ArgumentList::keywords()
keywords(list) == { k \in AllKeywords : list[k] # 0 }

-----------------------------------------------------------------------------
(* FunctionCall::new.                                                      *)

\* Faulty variant: the lookup does not compare identifiers and takes the first
\* registry entry.
FindFunction_Any(registry, ident) ==
    IF Len(registry) = 0 THEN 0 ELSE 1

\* Faulty variant: the last registry position holding the identifier.
FindFunction_Last(registry, ident) ==
    LET hits == { i \in 1..Len(registry) : registry[i].identifier = ident }
    IN  IF hits = {} THEN 0 ELSE CHOOSE i \in hits : \A j \in hits : i >= j

\* funcs.iter().enumerate().find(|(_pos, f)| f.identifier() == ident):
\* the first registry position holding the identifier, 0 when there is none.
FindFunction(registry, ident) ==
    LET hits == { i \in 1..Len(registry) : registry[i].identifier = ident }
    IN  IF hits = {} THEN 0 ELSE CHOOSE i \in hits : \A j \in hits : i <= j

\* funcs.iter().map(|func| func.identifier()).collect()
RegistryIdents(registry) ==
    [i \in 1..Len(registry) |-> registry[i].identifier]

\* Faulty variant: the arity check is off by one.
ArityExceeded_OffByOne(arguments, parameters) ==
    Len(arguments) > Len(parameters) + 1

\* arguments.len() > function.parameters().len()
ArityExceeded(arguments, parameters) == Len(arguments) > Len(parameters)

\* Faulty variant: the keyword search skips the first declared parameter.
FindKeyword_SkipFirst(parameters, k) ==
    LET hits == { i \in 2..Len(parameters) : parameters[i].keyword = k }
    IN  IF hits = {} THEN 0 ELSE CHOOSE i \in hits : \A j \in hits : i <= j

\* parameters().iter().enumerate().find(|(_, param)| param.keyword == k):
\* the first declaration position with that keyword, 0 when there is none.
FindKeyword(parameters, k) ==
    LET hits == { i \in 1..Len(parameters) : parameters[i].keyword = k }
    IN  IF hits = {} THEN 0 ELSE CHOOSE i \in hits : \A j \in hits : i <= j

\* Faulty variant: a keyword argument is bound by its written position, like
\* an unkeyed one, once its keyword is known to be declared.
ParameterOf_Positional(parameters, argument, index) ==
    IF argument.keyword = NoKeyword \/ FindKeyword(parameters, argument.keyword) # 0
    THEN [pos   |-> IF index + 1 <= Len(parameters) THEN index + 1 ELSE 0,
          index |-> index + 1]
    ELSE [pos |-> 0, index |-> index]

\* Faulty variant: after a keyword argument the cursor follows the claimed
\* slot, wherever the argument was written.
ParameterOf_CursorFollows(parameters, argument, index) ==
    IF argument.keyword = NoKeyword
    THEN [pos   |-> IF index + 1 <= Len(parameters) THEN index + 1 ELSE 0,
          index |-> index + 1]
    ELSE LET pos == FindKeyword(parameters, argument.keyword)
         IN  [pos   |-> pos,
              index |-> IF pos # 0 THEN pos ELSE index]

\* The match on argument.keyword(): the declaration position (1-based, 0 for
\* no parameter) the argument resolves to, and the positional cursor after it.
\* index counts from 0 as in the code, so parameters().get(index - 1) after
\* the increment is position index + 1 here, and pos == index is pos - 1 = index.
ParameterOf(parameters, argument, index) ==
    IF argument.keyword = NoKeyword
    THEN [pos   |-> IF index + 1 <= Len(parameters) THEN index + 1 ELSE 0,
          index |-> index + 1]
    ELSE LET pos == FindKeyword(parameters, argument.keyword)
         IN  [pos   |-> pos,
              index |-> IF pos # 0 /\ pos - 1 = index THEN index + 1 ELSE index]

\* Faulty variant: a Kind without intersection is taken for a partial match.
KindCheck_NoRejection(param_kind, expr_kind) ==
    IF ~is_superset(param_kind, expr_kind) THEN "partial" ELSE "exact"

\* The type check of one argument against its parameter.
KindCheck(param_kind, expr_kind) ==
    IF ~intersects(param_kind, expr_kind) THEN "invalid"
    ELSE IF ~is_superset(param_kind, expr_kind) THEN "partial"
    ELSE "exact"

\* Faulty variant: the fallibility of an argument is not looked at.
FallibleCheck_Never(argument) == FALSE

\* argument_type_def.is_fallible()
FallibleCheck(argument) == argument.fallible

\* State of the binding loop: the cursor, the ArgumentList, the flag, and for
\* every argument processed so far the parameter position it resolved to.
BindStart ==
    [tag |-> "Bound", at |-> 0, index |-> 0, list |-> EmptyList,
     maybe_fallible_arguments |-> FALSE, bound |-> << >>, checked |-> 0]

\* Faulty variant: the fallibility of an argument is checked before its Kind.
RECURSIVE BindArguments_FallibleFirst(_, _, _, _)
BindArguments_FallibleFirst(parameters, arguments, i, st) ==
    IF i > Len(arguments) THEN st
    ELSE
      LET argument == arguments[i]
          p        == ParameterOf(parameters, argument, st.index)
      IN
      IF p.pos = 0
      THEN [st EXCEPT !.tag = IF argument.keyword = NoKeyword
                               THEN "Panic" ELSE "UnknownKeyword",
                      !.at = i, !.index = p.index]
      ELSE
        LET parameter == parameters[p.pos]
            check     == KindCheck(parameter.kind, argument.kind)
            st1       == [st EXCEPT !.index = p.index,
                                    !.bound = Append(st.bound, p.pos),
                                    !.checked = st.checked + 1]
        IN
        IF FallibleCheck(argument)
        THEN [st1 EXCEPT !.tag = "FallibleArgument", !.at = i]
        ELSE IF check = "invalid"
        THEN [st1 EXCEPT !.tag = "InvalidArgumentKind", !.at = i]
        ELSE BindArguments_FallibleFirst(parameters, arguments, i + 1,
                 [st1 EXCEPT !.maybe_fallible_arguments = @ \/ check = "partial",
                             !.list = insert(st.list, parameter.keyword, i)])

\* for node in &arguments { ... }, from argument i on.
RECURSIVE BindArguments(_, _, _, _)
BindArguments(parameters, arguments, i, st) ==
    IF i > Len(arguments) THEN st
    ELSE
      LET argument == arguments[i]
          p        == ParameterOf(parameters, argument, st.index)
      IN
      IF p.pos = 0
      THEN \* ok_or_else: keyword_span().expect("exists") panics without a keyword
           [st EXCEPT !.tag = IF argument.keyword = NoKeyword
                               THEN "Panic" ELSE "UnknownKeyword",
                      !.at = i, !.index = p.index]
      ELSE
        LET parameter == parameters[p.pos]
            check     == KindCheck(parameter.kind, argument.kind)
            st1       == [st EXCEPT !.index = p.index,
                                    !.bound = Append(st.bound, p.pos),
                                    !.checked = st.checked + 1]
        IN
        IF check = "invalid"
        THEN [st1 EXCEPT !.tag = "InvalidArgumentKind", !.at = i]
        ELSE
          LET st2 == [st1 EXCEPT !.maybe_fallible_arguments =
                                     st.maybe_fallible_arguments \/ check = "partial"]
          IN
          IF FallibleCheck(argument)
          THEN [st2 EXCEPT !.tag = "FallibleArgument", !.at = i]
          ELSE BindArguments(parameters, arguments, i + 1,
                   [st2 EXCEPT !.list = insert(st.list, parameter.keyword, i)])

\* Faulty variant: the last missing required parameter is reported.
MissingRequired_Last(parameters, list) ==
    LET missing == { i \in 1..Len(parameters) :
                        /\ parameters[i].required
                        /\ list[parameters[i].keyword] = 0 }
    IN  IF missing = {} THEN 0 ELSE CHOOSE i \in missing : \A j \in missing : i >= j

\* The first required parameter, in declaration order, whose keyword is not in
\* list.keywords(); 0 when every required parameter is bound.
MissingRequired(parameters, list) ==
    LET missing == { i \in 1..Len(parameters) :
                        /\ parameters[i].required
                        /\ parameters[i].keyword \notin keywords(list) }
    IN  IF missing = {} THEN 0 ELSE CHOOSE i \in missing : \A j \in missing : i <= j

\* TypeDef of the inner expression the compile() hook returned.
NULL == {"null"}

InnerTypeDef(hook) ==
    TypeDefOf(IF hook = "integer" THEN INTEGER ELSE NULL, hook = "fallible")

\* Faulty variant: the negation of maybe_fallible_arguments is lost.
AbortInfallibleCheck_Unnegated(abort_on_error, maybe_fallible_arguments, hook) ==
    /\ abort_on_error
    /\ maybe_fallible_arguments
    /\ ~is_fallible(InnerTypeDef(hook))

\* abort_on_error && !maybe_fallible_arguments && !expr.type_def().is_fallible()
AbortInfallibleCheck(abort_on_error, maybe_fallible_arguments, hook) ==
    /\ abort_on_error
    /\ ~maybe_fallible_arguments
    /\ ~is_fallible(InnerTypeDef(hook))

\* The outcome of new(): tag "Ok" with the node's fields, or the error's tag
\* with the data it carries.  compiled and updated record whether the
\* compile() hook and update_state were invoked.
NoResult ==
    [tag |-> "None", function_id |-> -1, ident |-> "", idents |-> << >>,
     max |-> 0, at |-> 0, keywords |-> << >>, keyword |-> "", position |-> 0,
     index |-> 0, list |-> EmptyList, maybe_fallible_arguments |-> FALSE,
     bound |-> << >>, checked |-> 0, compiled |-> FALSE, updated |-> FALSE,
     hook |-> "none", abort_on_error |-> FALSE, arguments |-> << >>]

FunctionCall_new(ident, abort_on_error, arguments, registry, hook) ==
    LET f == FindFunction(registry, ident) IN
    IF f = 0
    THEN [NoResult EXCEPT !.tag = "Undefined", !.ident = ident,
                          !.idents = RegistryIdents(registry)]
    ELSE
    LET parameters == registry[f].parameters IN
    IF ArityExceeded(arguments, parameters)
    THEN [NoResult EXCEPT !.tag = "WrongNumberOfArgs", !.max = Len(parameters)]
    ELSE
    LET b    == BindArguments(parameters, arguments, 1, BindStart)
        base == [NoResult EXCEPT !.at = b.at, !.index = b.index, !.list = b.list,
                    !.maybe_fallible_arguments = b.maybe_fallible_arguments,
                    !.bound = b.bound, !.checked = b.checked]
    IN
    IF b.tag = "UnknownKeyword"
    THEN [base EXCEPT !.tag = b.tag,
             !.keywords = [i \in 1..Len(parameters) |-> parameters[i].keyword]]
    ELSE IF b.tag # "Bound"
    THEN [base EXCEPT !.tag = b.tag]
    ELSE
    LET m == MissingRequired(parameters, b.list) IN
    IF m # 0
    THEN [base EXCEPT !.tag = "MissingArgument",
             !.keyword = parameters[m].keyword, !.position = m - 1]
    ELSE
    LET called == [base EXCEPT !.compiled = TRUE, !.hook = hook] IN
    IF hook = "compile_error"
    THEN [called EXCEPT !.tag = "Compilation"]
    ELSE IF AbortInfallibleCheck(abort_on_error, b.maybe_fallible_arguments, hook)
    THEN [called EXCEPT !.tag = "AbortInfallible"]
    ELSE
    LET stated == [called EXCEPT !.updated = TRUE] IN
    IF hook = "update_error"
    THEN [stated EXCEPT !.tag = "UpdateState"]
    ELSE [stated EXCEPT !.tag = "Ok", !.abort_on_error = abort_on_error,
             !.ident = registry[f].identifier, !.function_id = f - 1,
             !.arguments = arguments]

\* Faulty variant: maybe_fallible_arguments is not consulted.
FunctionCall_type_def_IgnoringArguments(node) ==
    LET inner == InnerTypeDef(node.hook)
    IN  IF node.abort_on_error
        THEN abortable(with_fallibility(inner, FALSE))
        ELSE inner

\* Faulty variant: abort_on_error marks the TypeDef abortable and leaves its
\* fallibility as it is.
FunctionCall_type_def_KeepingFallibility(node) ==
    LET inner == InnerTypeDef(node.hook)
        t1    == IF node.maybe_fallible_arguments
                 THEN with_fallibility(inner, TRUE) ELSE inner
    IN  IF node.abort_on_error
        THEN [t1 EXCEPT !.abortable = TRUE]
        ELSE t1

\* FunctionCall::type_def
FunctionCall_type_def(node) ==
    LET inner == InnerTypeDef(node.hook)
        t1    == IF node.maybe_fallible_arguments
                 THEN with_fallibility(inner, TRUE) ELSE inner
    IN  IF node.abort_on_error
        THEN abortable(with_fallibility(t1, FALSE))
        ELSE t1

-----------------------------------------------------------------------------
(* Runtime values, expression nodes and the functions they call.           *)

\* Value: null, a boolean, or an array of values.
Null == [t |-> "null", v |-> << >>]

Bool(b) == [t |-> IF b THEN "true" ELSE "false", v |-> << >>]

ArrayValue(values) == [t |-> "array", v |-> values]

\* An object value, by its fields in key order.
ObjectValue(values) == [t |-> "object", v |-> values]

\* Option::None on the parameter stack and in a resolved argument list.
None == [t |-> "none", v |-> << >>]

\* The message of an ExpressionError::Error: the text of the function or
\* operator that failed, or what FunctionCall::resolve formats around the
\* message of its inner expression (the identifier, the span, the message).
Message(text) ==
    [text |-> text, ident |-> "", start |-> 0, end |-> 0, inner |-> << >>]

\* Label::primary(message, span)
Label_primary(message, span) ==
    [kind |-> "primary", message |-> message, span |-> span]

\* Resolved = Result<Value, ExpressionError>, with the context left behind.
\* kind is "Ok", "Error" or "Abort"; "Panic" stands for the panic that ends
\* the evaluation.  origin names the function or operator that failed;
\* message, labels and notes are those of ExpressionError::Error.
Outcome(kind, value, origin, ctx) ==
    [kind |-> kind, value |-> value, origin |-> origin, ctx |-> ctx,
     message |-> Message(origin), labels |-> << >>, notes |-> << >>]

Ok(value, ctx) == Outcome("Ok", value, "", ctx)

\* Expression nodes: the variant, the registry index of a call (-1 otherwise)
\* and the child expressions.
Node(type, function_id, inner) ==
    [type |-> type, function_id |-> function_id, inner |-> inner]

Noop == Node("Noop", -1, << >>)

\* No argument bound to a declared parameter.
Absent == Node("Absent", -1, << >>)

\* Unary over its only variant, Not.
UnaryNot(inner) == Node("Unary", -1, << inner >>)

ArrayOf(inner) == Node("Array", -1, inner)

\* A constructed FunctionCall: the registry index and, for every declared
\* parameter in declaration order, the bound argument expression or Absent.
Call(function_id, arguments) == Node("FunctionCall", function_id, arguments)

\* FunctionCall::noop(): a call node whose inner expression is Noop, with
\* function_id 0 and no arguments.
FunctionCall_noop == Node("FunctionCall::noop", 0, << >>)

\* self.span of a call node.
CallSpan == [start |-> 10, end |-> 20]

\* The registry used at compile time and at run time, by registry index
\* (from 0): get() reads the context, del() returns the context's value and
\* clears it, fail() returns an Error, abort() returns an Abort, echo(value)
\* returns its optional argument, obj() returns the object { "bar": null },
\* pick(pattern, value) returns value, or pattern when value is absent.  The
\* last entry is a second function registered under the name get, which
\* returns null.  body names what the function at the index does.
stdlib ==
    << [identifier |-> "get",   body |-> "get",   parameters |-> << >>],
       [identifier |-> "del",   body |-> "del",   parameters |-> << >>],
       [identifier |-> "fail",  body |-> "fail",  parameters |-> << >>],
       [identifier |-> "abort", body |-> "abort", parameters |-> << >>],
       [identifier |-> "echo",  body |-> "echo",
        parameters |-> << Param("value", Shapes, FALSE) >>],
       [identifier |-> "obj",   body |-> "obj",   parameters |-> << >>],
       [identifier |-> "pick",  body |-> "pick",
        parameters |-> << Param("pattern", Shapes, FALSE),
                          Param("value", Shapes, FALSE) >>],
       [identifier |-> "get",   body |-> "null",  parameters |-> << >>] >>

\* What the function does at run time with its resolved arguments.
Invoke(function_id, args, ctx) ==
    LET ident == stdlib[function_id + 1].identifier
        body  == stdlib[function_id + 1].body
    IN
    CASE body = "get"   -> Ok(ctx, ctx)
      [] body = "del"   -> Ok(ctx, Null)
      [] body = "fail"  -> [Outcome("Error", Null, ident, ctx)
                              EXCEPT !.notes = << "fail() always fails" >>]
      [] body = "abort" -> Outcome("Abort", Null, ident, ctx)
      [] body = "obj"   -> Ok(ObjectValue(<< Null >>), ctx)
      [] body = "pick"  -> Ok(IF args[2] # None THEN args[2]
                              ELSE IF args[1] # None THEN args[1] ELSE Null, ctx)
      [] body = "null"  -> Ok(Null, ctx)
      [] OTHER          -> Ok(IF args[1] = None THEN Null ELSE args[1], ctx)

-----------------------------------------------------------------------------
(* resolve(): the tree-walking backend.                                    *)

RECURSIVE resolve(_, _)
RECURSIVE ResolveEach(_, _, _, _)

\* exprs.iter().map(|expr| expr.resolve(ctx)).collect::<Result<Vec<_>, _>>():
\* left to right, stopping at the first failure.  An Absent argument is None.
ResolveEach(exprs, i, ctx, values) ==
    IF i > Len(exprs) THEN Ok(values, ctx)
    ELSE IF exprs[i] = Absent
    THEN ResolveEach(exprs, i + 1, ctx, Append(values, None))
    ELSE LET r == resolve(exprs[i], ctx)
         IN  IF r.kind # "Ok" THEN r
             ELSE ResolveEach(exprs, i + 1, r.ctx, Append(values, r.value))

\* Faulty variant: the no-op hands back the context's value and clears it.
Noop_resolve_Taking(ctx) == Ok(ctx, Null)

Noop_resolve(ctx) == Ok(Null, ctx)

\* Faulty variant: the elements are evaluated from the last to the first.
Array_resolve_RightToLeft(self, ctx) ==
    LET n == Len(self.inner)
        r == ResolveEach([i \in 1..n |-> self.inner[n + 1 - i]], 1, ctx, << >>)
    IN  IF r.kind = "Ok"
        THEN Ok(ArrayValue([i \in 1..n |-> r.value[n + 1 - i]]), r.ctx)
        ELSE r

Array_resolve(self, ctx) ==
    LET r == ResolveEach(self.inner, 1, ctx, << >>)
    IN  IF r.kind = "Ok" THEN Ok(ArrayValue(r.value), r.ctx) ELSE r

\* Logical negation of the inner expression's boolean value.
Not_resolve(inner, ctx) ==
    LET r == resolve(inner, ctx)
    IN  IF r.kind # "Ok" THEN r
        ELSE IF r.value.t = "true" THEN Ok(Bool(FALSE), r.ctx)
        ELSE IF r.value.t = "false" THEN Ok(Bool(TRUE), r.ctx)
        ELSE Outcome("Error", Null, "not", r.ctx)

Unary_resolve(self, ctx) == Not_resolve(self.inner[1], ctx)

\* The inner expression compile() returned: it resolves the bound arguments
\* in declaration order and invokes the function on them.
Inner_resolve(self, ctx) ==
    LET a == ResolveEach(self.inner, 1, ctx, << >>)
    IN  IF a.kind # "Ok" THEN a ELSE Invoke(self.function_id, a.value, a.ctx)

\* format!("function call error for \"{}\" at ({}:{}): {}", ident, start, end, message)
FunctionCallError(ident, span, message) ==
    [text |-> "function call error for", ident |-> ident,
     start |-> span.start, end |-> span.end, inner |-> << message >>]

\* Faulty variant: the call's label is put before the inner expression's
\* labels and carries the formatted message.
FunctionCall_resolve_Prepending(self, ctx) ==
    LET r     == Inner_resolve(self, ctx)
        ident == stdlib[self.function_id + 1].identifier
        msg   == FunctionCallError(ident, CallSpan, r.message)
    IN  IF r.kind = "Abort" THEN [r EXCEPT !.kind = "Panic"]
        ELSE IF r.kind = "Error"
        THEN [r EXCEPT !.labels = << Label_primary(msg, CallSpan) >> \o r.labels,
                       !.message = msg]
        ELSE r

\* self.expr.resolve(ctx).map_err(..): an Ok passes through, an Abort panics,
\* an Error gets a primary label at the call's span pushed after its labels
\* and the call's identifier and span formatted around its message.
FunctionCall_resolve(self, ctx) ==
    LET r     == Inner_resolve(self, ctx)
        ident == stdlib[self.function_id + 1].identifier
    IN  IF r.kind = "Abort" THEN [r EXCEPT !.kind = "Panic"]
        ELSE IF r.kind = "Error"
        THEN [r EXCEPT !.labels = Append(r.labels, Label_primary(r.message, CallSpan)),
                       !.message = FunctionCallError(ident, CallSpan, r.message)]
        ELSE r

\* FunctionCall::resolve of the node noop() builds: self.expr is Noop, whose
\* resolve never fails, so map_err changes nothing.
Noop_call_resolve(ctx) == Noop_resolve(ctx)

resolve(e, ctx) ==
    CASE e.type = "Noop"  -> Noop_resolve(ctx)
      [] e.type = "Array" -> Array_resolve(e, ctx)
      [] e.type = "Unary" -> Unary_resolve(e, ctx)
      [] e.type = "FunctionCall::noop" -> Noop_call_resolve(ctx)
      [] OTHER            -> FunctionCall_resolve(e, ctx)

-----------------------------------------------------------------------------
(* compile_to_vm(): emission of bytecode.                                  *)

\* The instruction stream holds opcodes and primitives.
OpCode(op) == [op |-> op, n |-> 0]

Primitive(n) == [op |-> "Primitive", n |-> n]

\* The program under construction.
EmptyProgram == [code |-> << >>, constants |-> << >>, statics |-> << >>, error |-> ""]

write_opcode(prog, op) == [prog EXCEPT !.code = Append(@, OpCode(op))]

write_primitive(prog, n) == [prog EXCEPT !.code = Append(@, Primitive(n))]

\* vm.add_constant(value): the constant's index in the pool.
add_constant(prog, value) == [prog EXCEPT !.constants = Append(@, value)]

\* vm.add_static(argument): the static's index in the pool.
add_static(prog, value) == [prog EXCEPT !.statics = Append(@, value)]

\* Function::compile_argument(args, ctx, keyword, expr) of the registered
\* functions: pick() precompiles a constant `pattern` to its value; every
\* other function keeps the default, Ok(None).
compile_argument(function_id, keyword, expression) ==
    IF /\ stdlib[function_id + 1].identifier = "pick"
       /\ keyword = "pattern"
       /\ expression.type = "Noop"
    THEN Null
    ELSE None

RECURSIVE compile_to_vm(_, _)
RECURSIVE CompileReversed(_, _, _)
RECURSIVE CompileArguments(_, _, _)

Noop_compile_to_vm(prog) ==
    LET added == add_constant(prog, Null)
    IN  write_primitive(write_opcode(added, "Constant"), Len(added.constants) - 1)

\* for value in self.inner.iter().rev() { value.compile_to_vm(..)? }
CompileReversed(exprs, i, prog) ==
    IF i < 1 \/ prog.error # "" THEN prog
    ELSE CompileReversed(exprs, i - 1, compile_to_vm(exprs[i], prog))

\* Faulty variant: the children are emitted in declaration order.
RECURSIVE CompileForward(_, _, _)
CompileForward(exprs, i, prog) ==
    IF i > Len(exprs) \/ prog.error # "" THEN prog
    ELSE CompileForward(exprs, i + 1, compile_to_vm(exprs[i], prog))

Array_compile_to_vm_Forward(self, prog) ==
    LET children == CompileForward(self.inner, 1, prog)
    IN  IF children.error # "" THEN children
        ELSE write_primitive(write_opcode(children, "CreateArray"), Len(self.inner))

Array_compile_to_vm(self, prog) ==
    LET children == CompileReversed(self.inner, Len(self.inner), prog)
    IN  IF children.error # "" THEN children
        ELSE write_primitive(write_opcode(children, "CreateArray"), Len(self.inner))

\* Not::compile_to_vm: the inner expression's code, then the Not opcode.
Not_compile_to_vm(inner, prog) ==
    LET code == compile_to_vm(inner, prog)
    IN  IF code.error # "" THEN code ELSE write_opcode(code, "Not")

Unary_compile_to_vm(self, prog) == Not_compile_to_vm(self.inner[1], prog)

\* Faulty variant: nothing is emitted for an absent argument.
RECURSIVE CompileArguments_SkippingAbsent(_, _, _)
CompileArguments_SkippingAbsent(self, i, prog) ==
    IF i > Len(self.inner) \/ prog.error # "" THEN prog
    ELSE
    LET argument == self.inner[i]
        keyword  == stdlib[self.function_id + 1].parameters[i].keyword
        static   == compile_argument(self.function_id, keyword, argument)
    IN
    IF static # None
    THEN LET added == add_static(prog, static)
         IN  CompileArguments_SkippingAbsent(self, i + 1,
                 write_primitive(write_opcode(added, "MoveStaticParameter"),
                                 Len(added.statics) - 1))
    ELSE IF argument = Absent
    THEN CompileArguments_SkippingAbsent(self, i + 1, prog)
    ELSE LET code == compile_to_vm(argument, prog)
         IN  IF code.error # "" THEN code
             ELSE CompileArguments_SkippingAbsent(self, i + 1,
                      write_opcode(code, "MoveParameter"))

\* compile_arguments() and the loop over its result, from parameter i on: in
\* declaration order, a precompiled argument is added to the statics and
\* referred to by MoveStaticParameter and its index, a dynamic argument's code
\* is followed by MoveParameter, and an absent one gives EmptyParameter.
CompileArguments(self, i, prog) ==
    IF i > Len(self.inner) \/ prog.error # "" THEN prog
    ELSE
    LET argument == self.inner[i]
        keyword  == stdlib[self.function_id + 1].parameters[i].keyword
        static   == compile_argument(self.function_id, keyword, argument)
    IN
    IF static # None
    THEN LET added == add_static(prog, static)
         IN  CompileArguments(self, i + 1,
                 write_primitive(write_opcode(added, "MoveStaticParameter"),
                                 Len(added.statics) - 1))
    ELSE IF argument = Absent
    THEN CompileArguments(self, i + 1, write_opcode(prog, "EmptyParameter"))
    ELSE LET code == compile_to_vm(argument, prog)
         IN  IF code.error # "" THEN code
             ELSE CompileArguments(self, i + 1, write_opcode(code, "MoveParameter"))

FunctionCall_compile_to_vm(self, prog) ==
    IF self.function_id + 1 \notin 1..Len(stdlib)
    THEN [prog EXCEPT !.error = "Function not found."]
    ELSE
    LET params == CompileArguments(self, 1, prog)
    IN  IF params.error # "" THEN params
        ELSE write_primitive(
               write_primitive(
                 write_primitive(write_opcode(params, "Call"), self.function_id),
                 CallSpan.start),
               CallSpan.end)

\* FunctionCall::compile_to_vm of the node noop() builds: the function at
\* function_id is looked up in the registry, and resolve_arguments of its
\* parameters over no arguments leaves every parameter absent.
Noop_call_compile_to_vm(self, prog) ==
    IF self.function_id + 1 \notin 1..Len(stdlib)
    THEN [prog EXCEPT !.error = "Function not found."]
    ELSE FunctionCall_compile_to_vm(
             Call(self.function_id,
                  [p \in 1..Len(stdlib[self.function_id + 1].parameters) |-> Absent]),
             prog)

compile_to_vm(e, prog) ==
    CASE e.type = "Noop"  -> Noop_compile_to_vm(prog)
      [] e.type = "Array" -> Array_compile_to_vm(e, prog)
      [] e.type = "Unary" -> Unary_compile_to_vm(e, prog)
      [] e.type = "FunctionCall::noop" -> Noop_call_compile_to_vm(e, prog)
      [] OTHER            -> FunctionCall_compile_to_vm(e, prog)


-----------------------------------------------------------------------------
(* The bytecode machine.                                                   *)

NotRun == Outcome("None", Null, "", Null)

NoVm ==
    [code |-> << >>, constants |-> << >>, statics |-> << >>, error |-> "", ip |-> 1,
     invoked |-> << >>,
     stack |-> << >>, parameter_stack |-> << >>, ctx |-> Null,
     outcome |-> NotRun]

\* The machine loaded with a compiled program and the runtime context.
Load(prog, ctx) ==
    [NoVm EXCEPT !.code = prog.code, !.constants = prog.constants,
                 !.statics = prog.statics,
                 !.error = prog.error, !.ctx = ctx]

Reverse(seq) == [i \in 1..Len(seq) |-> seq[Len(seq) + 1 - i]]

\* The n values on top of a stack, and the stack without them.
Top(stack, n) == SubSeq(stack, Len(stack) - n + 1, Len(stack))

Drop(stack, n) == SubSeq(stack, 1, Len(stack) - n)

\* Constant: push the constant the following primitive indexes.
Constant_step(m) ==
    [m EXCEPT !.stack = Append(@, m.constants[m.code[m.ip + 1].n + 1]),
              !.ip = @ + 2]

\* CreateArray: pop as many values as the following primitive says; the first
\* value popped is element 0.
CreateArray_step(m) ==
    LET n == m.code[m.ip + 1].n
    IN  [m EXCEPT !.stack = Append(Drop(@, n), ArrayValue(Reverse(Top(@, n)))),
                  !.ip = @ + 2]

\* Not: pop a boolean and push its negation; any other value is an Error.
Not_step(m) ==
    LET value == m.stack[Len(m.stack)]
    IN  IF value.t \in {"true", "false"}
        THEN [m EXCEPT !.stack = Append(Drop(@, 1), Bool(value.t = "false")),
                       !.ip = @ + 1]
        ELSE [m EXCEPT !.outcome = Outcome("Error", Null, "not", m.ctx)]

\* MoveParameter: move the top of the stack onto the parameter stack.
MoveParameter_step(m) ==
    [m EXCEPT !.parameter_stack = Append(@, m.stack[Len(m.stack)]),
              !.stack = Drop(@, 1),
              !.ip = @ + 1]

\* MoveStaticParameter: push the static the following primitive indexes onto
\* the parameter stack.
MoveStaticParameter_step(m) ==
    [m EXCEPT !.parameter_stack = Append(@, m.statics[m.code[m.ip + 1].n + 1]),
              !.ip = @ + 2]

\* EmptyParameter: an absent optional argument keeps its slot.
EmptyParameter_step(m) ==
    [m EXCEPT !.parameter_stack = Append(@, None), !.ip = @ + 1]

\* Call: invoke the function at the registry index on the parameters moved
\* for it; push its value, stop on an Error, panic on an Abort.  invoked keeps
\* the registry indices invoked so far.
Call_step(m) ==
    LET function_id == m.code[m.ip + 1].n
        n == Len(stdlib[function_id + 1].parameters)
        r == Invoke(function_id, Top(m.parameter_stack, n), m.ctx)
    IN  IF r.kind = "Ok"
        THEN [m EXCEPT !.stack = Append(@, r.value),
                       !.parameter_stack = Drop(@, n),
                       !.ctx = r.ctx,
                       !.invoked = Append(@, function_id),
                       !.ip = @ + 4]
        ELSE [m EXCEPT !.ctx = r.ctx,
                       !.invoked = Append(@, function_id),
                       !.outcome = IF r.kind = "Abort"
                                   THEN [r EXCEPT !.kind = "Panic"] ELSE r]

\* One step of the interpreter loop: at the end of the program the value on
\* top of the stack is the result.
Step(m) ==
    IF m.ip > Len(m.code)
    THEN [m EXCEPT !.outcome = Ok(m.stack[Len(m.stack)], m.ctx)]
    ELSE LET op == m.code[m.ip].op IN
         CASE op = "Constant"       -> Constant_step(m)
           [] op = "CreateArray"    -> CreateArray_step(m)
           [] op = "Not"            -> Not_step(m)
           [] op = "MoveParameter"  -> MoveParameter_step(m)
           [] op = "EmptyParameter" -> EmptyParameter_step(m)
           [] op = "MoveStaticParameter" -> MoveStaticParameter_step(m)
           [] OTHER                 -> Call_step(m)

-----------------------------------------------------------------------------
(* type_def(): the static type of an expression node.                      *)

\* A Kind with structural detail: the shapes, and for an array or an object
\* the Kind known for each index (entry i of known is index i - 1) or for each
\* field name in keys.
KindOf(shapes, keys, known) == [shapes |-> shapes, keys |-> keys, known |-> known]

Kind_null == KindOf(NULL, << >>, << >>)

Kind_boolean == KindOf({"boolean"}, << >>, << >>)

Kind_any ==
    KindOf({"null", "boolean", "integer", "bytes", "array", "object"}, << >>, << >>)

\* Kind::array(collection), the collection mapping index to Kind.
Kind_array(collection) == KindOf({"array"}, << >>, collection)

\* Kind::object(collection), the collection mapping field name to Kind.
Kind_object(keys, collection) == KindOf({"object"}, keys, collection)

\* TypeDef::array(collection)
TypeDef_array(collection) == TypeDefOf(Kind_array(collection), FALSE)

\* TypeDef of the inner expression compile() returns for each function of the
\* runtime registry, by registry index.
StdlibTypeDef(function_id) ==
    LET ident == stdlib[function_id + 1].identifier IN
    CASE ident = "fail" -> TypeDefOf(Kind_null, TRUE)
      [] ident = "obj"  -> TypeDefOf(Kind_object(<< "bar" >>, << Kind_null >>), FALSE)
      [] OTHER          -> TypeDefOf(Kind_any, FALSE)

RECURSIVE type_def(_)

\* Noop::type_def: TypeDef::null().infallible()
Noop_type_def == with_fallibility(TypeDefOf(Kind_null, FALSE), FALSE)

\* Faulty variant: the array is fallible only when every element is, and the
\* structural detail of nested elements is dropped.
Array_type_def_Flat(self) ==
    LET type_defs == [i \in 1..Len(self.inner) |-> type_def(self.inner[i])]
        fallible  == \A i \in 1..Len(type_defs) : is_fallible(type_defs[i])
        collection ==
            [i \in 1..Len(type_defs) |->
                KindOf(type_defs[i].kind.shapes, << >>, << >>)]
    IN  with_fallibility(TypeDef_array(collection), fallible)

\* Array::type_def: the element TypeDefs in order, fallible when any of them
\* is, and a collection holding at index i the i-th element's Kind.
Array_type_def(self) ==
    LET type_defs == [i \in 1..Len(self.inner) |-> type_def(self.inner[i])]
        fallible  == \E i \in 1..Len(type_defs) : is_fallible(type_defs[i])
        collection == [i \in 1..Len(type_defs) |-> type_defs[i].kind]
    IN  with_fallibility(TypeDef_array(collection), fallible)

\* Not::type_def: a boolean, fallible when the operand is fallible or may be
\* something else than a boolean.
Not_type_def(inner) ==
    LET operand == type_def(inner)
    IN  TypeDefOf(Kind_boolean,
                  is_fallible(operand) \/ operand.kind # Kind_boolean)

Unary_type_def(self) == Not_type_def(self.inner[1])

\* FunctionCall::type_def of a call constructed without abort_on_error whose
\* arguments all fully match: the inner expression's TypeDef.
Call_type_def(self) == StdlibTypeDef(self.function_id)

\* FunctionCall::type_def of the node noop() builds: the type of Noop, with
\* maybe_fallible_arguments and abort_on_error both false.
Noop_call_type_def == Noop_type_def

type_def(e) ==
    CASE e.type = "Noop"  -> Noop_type_def
      [] e.type = "Array" -> Array_type_def(e)
      [] e.type = "Unary" -> Unary_type_def(e)
      [] e.type = "FunctionCall::noop" -> Noop_call_type_def
      [] OTHER            -> Call_type_def(e)

-----------------------------------------------------------------------------
(* The diagnostics of new() and the side-channel of ExternalEnv.           *)

Span(start, end) == [start |-> start, end |-> end]

\* The span of the identifier node of the call.
IdentSpan == Span(CallSpan.start, CallSpan.start + 4)

\* The span of the i-th written argument node, of its keyword and of its
\* expression.
ArgumentSpan(i) == Span(CallSpan.start + 3 + 2 * i, CallSpan.start + 5 + 2 * i)

KeywordSpan(i) == Span(ArgumentSpan(i).start, ArgumentSpan(i).start + 1)

ExprSpan(i) == Span(ArgumentSpan(i).start + 1, ArgumentSpan(i).end)

\* Span::new(first.span().start(), last.span().end()) of the written arguments.
ArgumentsSpan(n) == Span(ArgumentSpan(1).start, ArgumentSpan(n).end)

\* Span::new(ident_span.end(), ident_span.end() + 1)
AbortSpan == Span(IdentSpan.end, IdentSpan.end + 1)

\* Label::context(message, span)
Label_context(message, span) ==
    [kind |-> "context", message |-> message, span |-> span]

\* The error a compile() hook returns, a Box<dyn DiagnosticError>, by its
\* labels and notes: none (the trait's default), a primary label, a context
\* label only, or both, with notes or without.
NoError == [labels |-> << >>, notes |-> << >>]

InnerErrors ==
    { NoError,
      [labels |-> << Label_primary("invalid pattern", Span(0, 1)) >>,
       notes  |-> << "SeeErrorDocs" >>],
      [labels |-> << Label_context("see the pattern", Span(0, 1)) >>,
       notes  |-> << >>],
      [labels |-> << Label_context("see the pattern", Span(0, 1)),
                     Label_primary("invalid pattern", Span(2, 3)) >>,
       notes  |-> << "the pattern must be a regular expression",
                     "SeeErrorDocs" >>] }

\* ident.as_ref().chars().collect::<Vec<_>>(): the characters of an
\* identifier.
chars(ident) ==
    CASE ident = "test" -> << "t", "e", "s", "t" >>
      [] ident = "need" -> << "n", "e", "e", "d" >>
      [] ident = "nope" -> << "n", "o", "p", "e" >>
      [] ident = "neat" -> << "n", "e", "a", "t" >>
      [] OTHER          -> << >>

\* levenstein::distance(a, b): the least number of insertions, deletions and
\* substitutions of one character that turn a into b.
RECURSIVE distance(_, _)
distance(a, b) ==
    IF Len(a) = 0 THEN Len(b)
    ELSE IF Len(b) = 0 THEN Len(a)
    ELSE LET del  == distance(Tail(a), b) + 1
             ins  == distance(a, Tail(b)) + 1
             sub  == distance(Tail(a), Tail(b))
                       + (IF Head(a) = Head(b) THEN 0 ELSE 1)
             least == IF del <= ins THEN del ELSE ins
         IN  IF sub <= least THEN sub ELSE least

\* Faulty variant: on a tie the last of the nearest identifiers is taken.
Guess_LastOnTie(ident, idents) ==
    LET score(i) == distance(chars(ident), chars(idents[i]))
    IN  CHOOSE i \in 1..Len(idents) :
          /\ \A j \in 1..Len(idents) : score(i) <= score(j)
          /\ \A j \in 1..Len(idents) : score(j) = score(i) => j <= i

\* idents.iter().map(distance).enumerate().min_by_key(|(_, score)| *score):
\* the position of the first identifier with the least score.
Guess(ident, idents) ==
    LET score(i) == distance(chars(ident), chars(idents[i]))
    IN  CHOOSE i \in 1..Len(idents) :
          /\ \A j \in 1..Len(idents) : score(i) <= score(j)
          /\ \A j \in 1..(i - 1) : score(j) > score(i)

\* format!(r#"did you mean "{}"?"#, guessed)
DidYouMean(guessed) == "did you mean \"" \o guessed \o "\"?"

\* Error::labels of Undefined: the primary label and, when there is an
\* identifier to suggest, the suggestion.
Undefined_labels(ident, idents) ==
    << Label_primary("undefined function", IdentSpan) >>
    \o (IF Len(idents) > 0
        THEN << Label_context(DidYouMean(idents[Guess(ident, idents)]), IdentSpan) >>
        ELSE << >>)

\* Faulty variant: the labels of the hook's error are passed on as they are.
Compilation_labels_Unanchored(call_span, error) == error.labels

\* Error::labels of Compilation: the labels of the hook's error, each with
\* its span set to the call's.
Compilation_labels(call_span, error) ==
    [i \in 1..Len(error.labels) |-> [error.labels[i] EXCEPT !.span = call_span]]

\* Error::labels of the error new() returned for the call; inner is the error
\* of the hook that a Compilation wraps.
Error_labels(c, error, inner) ==
    LET tag == error.tag IN
    CASE tag = "Undefined" -> Undefined_labels(error.ident, error.idents)
      [] tag = "WrongNumberOfArgs" ->
           << Label_primary("too many function arguments",
                            ArgumentsSpan(Len(c.arguments))),
              Label_context("this function takes a maximum of",
                            ArgumentsSpan(Len(c.arguments))) >>
      [] tag = "UnknownKeyword" ->
           << Label_primary("unknown keyword", KeywordSpan(error.at)),
              Label_context("this function accepts the following keywords",
                            IdentSpan) >>
      [] tag = "Compilation" -> Compilation_labels(CallSpan, inner)
      [] tag = "MissingArgument" ->
           << Label_primary("required argument missing", CallSpan) >>
      [] tag = "AbortInfallible" ->
           << Label_primary("this function can't fail", IdentSpan),
              Label_context("remove this abort-instruction", AbortSpan) >>
      [] tag = "InvalidArgumentKind" ->
           << Label_primary("this expression resolves to", ExprSpan(error.at)),
              Label_context("but the parameter expects", ArgumentSpan(error.at)) >>
      [] tag = "FallibleArgument" ->
           << Label_primary("this expression can fail", ExprSpan(error.at)),
              Label_context("handle the error before passing it in as an argument",
                            ExprSpan(error.at)) >>
      [] OTHER ->
           << Label_primary("an error occurred updating the compiler state",
                            CallSpan) >>

\* Error::notes of the error new() returned for the call.  The parameters of
\* the registry are integers, so an InvalidArgumentKind carries both
\* solutions.
Error_notes(error, inner) ==
    LET tag == error.tag IN
    CASE tag = "WrongNumberOfArgs" -> << "SeeDocs: function arguments" >>
      [] tag \in {"AbortInfallible", "FallibleArgument"} -> << "SeeErrorDocs" >>
      [] tag = "InvalidArgumentKind" ->
           << "solution: ensuring an appropriate type at runtime",
              "solution: coercing to an appropriate type",
              "SeeErrorDocs" >>
      [] tag = "Compilation" -> inner.notes
      [] OTHER -> << >>

\* AnyMap::new(): the empty side-channel.  An entry is named after the call
\* whose hook wrote it.
AnyMap_new == {}

\* What the hook of a call is given and leaves: the side-channel in its
\* compile context when it starts (saw) and when it returns (left), what
\* ExternalEnv holds meanwhile (during), and the error it returned.
NoHook ==
    [ran |-> FALSE, saw |-> AnyMap_new, during |-> AnyMap_new,
     left |-> AnyMap_new, error |-> NoError]

\* The compile() hook of call n run on the side-channel swapped out of
\* ExternalEnv: with_external_context(external.swap_external_context(AnyMap::new())).
CompileHook(side_channel, n, writes, error) ==
    [ran |-> TRUE, saw |-> side_channel, during |-> AnyMap_new,
     left |-> IF writes THEN side_channel \cup {n} ELSE side_channel,
     error |-> error]

\* The side-channel ExternalEnv holds when new() returns: untouched when the
\* hook was not reached; the empty one swapped in for the hook when the hook
\* returned an error, the ? returning before the re-insertion; otherwise what
\* the hook left, re-inserted before the AbortInfallible check.
FunctionCall_new_external(side_channel, r, hook) ==
    IF ~r.compiled THEN side_channel
    ELSE IF r.tag = "Compilation" THEN hook.during
    ELSE hook.left

\* The side-channel ExternalEnv holds when compile_arguments returns: on an
\* error of compile_argument the ? returns before the re-insertion.
FunctionCall_compile_arguments_external(hook, failed) ==
    IF failed THEN hook.during ELSE hook.left

\* One compilation: the calls made, those constructed, those emitted, the
\* entries written so far by hooks that returned without an error, and the
\* side-channel before the last call.
NoSession ==
    [calls |-> 0, built |-> 0, emitted |-> 0,
     written |-> AnyMap_new, before |-> AnyMap_new]

NoDiagnostic == [labels |-> << >>, notes |-> << >>]

-----------------------------------------------------------------------------
(* One node executed by resolve() and, compiled, by the bytecode machine.  *)

\* The traces sink before it runs: the batches of results the request builder
\* will yield, how many results were taken from the stream, the requests
\* handed to the driver, how many of them the driver has called the service
\* with, the internal events emitted, and whether run_inner has returned.
NoSink ==
    [batches |-> << >>, polled |-> 0, handed |-> << >>, called |-> 0,
     events |-> << >>, done |-> FALSE]

\* Before new() is called and before type_def() is.
NoCall == [ident |-> "", abort_on_error |-> FALSE, arguments |-> << >>]

NoTypeDef == TypeDefOf({}, FALSE)

\* Expressions without children: Noop and the calls of get(), del(), fail(),
\* obj().
Leaves == { Noop, Call(0, << >>), Call(1, << >>), Call(2, << >>), Call(5, << >>) }

\* What an array literal may hold: a leaf, !get(), echo(get()) or [get()].
Elements ==
    Leaves \cup { UnaryNot(Call(0, << >>)),
                  Call(4, << Call(0, << >>) >>),
                  ArrayOf(<< Call(0, << >>) >>) }

\* The calls of pick(pattern, value): each argument absent, the constant
\* null, or a call of a function without parameters.
PickCalls ==
    { Call(6, << p, v >>) : p \in {Absent, Noop, Call(0, << >>)},
                            v \in {Absent, Noop, Call(1, << >>), Call(2, << >>)} }

\* The nodes executed: an element, abort(), !null, echo(), echo(fail()), a
\* call of pick(), the placeholder call of noop(), or an array literal of
\* elements.
Exprs ==
    Elements
    \cup { Call(3, << >>), UnaryNot(Noop), Call(4, << Absent >>),
           Call(4, << Call(2, << >>) >>) }
    \cup PickCalls
    \cup { FunctionCall_noop }
    \cup { ArrayOf(inner) : inner \in UNION { [1..n -> Elements] : n \in 0..MaxElems } }

Contexts == { Bool(TRUE), Null }

InitExec ==
    /\ pc = "node"
    /\ call = NoCall
    /\ result = NoResult
    /\ td = NoTypeDef
    /\ expr \in Exprs
    /\ context \in Contexts
    /\ resolved = NotRun
    /\ vm = NoVm
    /\ external = AnyMap_new
    /\ session = NoSession
    /\ hooked = NoHook
    /\ diagnostic = NoDiagnostic
    /\ sink = NoSink

\* The static type of the node, taken while it is compiled.
StaticType ==
    /\ pc = "node"
    /\ td' = type_def(expr)
    /\ pc' = "checked"
    /\ UNCHANGED <<call, result, expr, context, resolved, vm, sessionVars>>

Resolve ==
    /\ pc = "checked"
    /\ resolved' = resolve(expr, context)
    /\ pc' = "resolved"
    /\ UNCHANGED <<call, result, td, expr, context, vm, sessionVars>>

CompileToVm ==
    /\ pc = "resolved"
    /\ vm' = Load(compile_to_vm(expr, EmptyProgram), context)
    /\ pc' = IF vm'.error = "" THEN "compiled" ELSE "rejected"
    /\ UNCHANGED <<call, result, td, expr, context, resolved, sessionVars>>

VmStep ==
    /\ pc = "compiled"
    /\ vm' = Step(vm)
    /\ pc' = IF vm'.outcome.kind = "None" THEN "compiled" ELSE "halted"
    /\ UNCHANGED <<call, result, td, expr, context, resolved, sessionVars>>

NextExec == StaticType \/ Resolve \/ CompileToVm \/ VmStep

SpecExec == InitExec /\ [][NextExec]_vars

-----------------------------------------------------------------------------
(* C2: the two backends agree.                                             *)

\* C2: for every node executed, the bytecode emitted by compile_to_vm ends
\* with the value resolve() returns, or with an error of the same kind.
C2_BackendsAgree ==
    pc = "halted"
    => /\ vm.outcome.kind = resolved.kind
       /\ resolved.kind = "Ok" => vm.outcome.value = resolved.value

-----------------------------------------------------------------------------
(* The compilation of one call: new(), then type_def() of the node built.  *)

\* The outcomes of the compile() hook to consider for a call: all of them when
\* new() gets as far as invoking the hook, a single one when it does not.
HooksOf(ident, abort_on_error, arguments) ==
    IF FunctionCall_new(ident, abort_on_error, arguments, funcs, "infallible").compiled
    THEN HookOutcomes
    ELSE {"infallible"}

Init ==
    /\ pc = "idle"
    /\ call = NoCall
    /\ result = NoResult
    /\ td = NoTypeDef
    /\ expr = Noop
    /\ context = Null
    /\ resolved = NotRun
    /\ vm = NoVm
    /\ external = AnyMap_new
    /\ session = NoSession
    /\ hooked = NoHook
    /\ diagnostic = NoDiagnostic
    /\ sink = NoSink

New ==
    /\ pc = "idle"
    /\ \E ident \in Idents, abort_on_error \in BOOLEAN, arguments \in ArgumentLists :
        \E hook \in HooksOf(ident, abort_on_error, arguments) :
          /\ call' = [ident |-> ident, abort_on_error |-> abort_on_error,
                      arguments |-> arguments]
          /\ result' = FunctionCall_new(ident, abort_on_error, arguments, funcs, hook)
          /\ pc' = IF result'.tag = "Ok" THEN "built" ELSE "failed"
    /\ UNCHANGED <<td, expr, context, resolved, vm, sessionVars>>

TypeDef ==
    /\ pc = "built"
    /\ td' = FunctionCall_type_def(result)
    /\ pc' = "typed"
    /\ UNCHANGED <<call, result, expr, context, resolved, vm, sessionVars>>

Next == New \/ TypeDef

Spec == Init /\ [][Next]_vars

-----------------------------------------------------------------------------
(* One compilation: a sequence of calls constructed on one ExternalEnv,    *)
(* then emitted as bytecode.                                               *)

\* Most calls of one compilation.
MaxCalls == 3

\* The arguments written in a compilation.
SessionArguments ==
    { Argument(NoKeyword, INTEGER, FALSE), Argument("two", Shapes, FALSE),
      Argument("four", INTEGER, FALSE), Argument(NoKeyword, BYTES, FALSE),
      Argument(NoKeyword, INTEGER, TRUE) }

SessionArgumentLists == UNION { [1..n -> SessionArguments] : n \in 0..MaxArgs }

\* The errors a hook with that outcome may return.
ErrorsOf(hook) == IF hook = "compile_error" THEN InnerErrors ELSE {NoError}

\* A side-channel that is empty or holds an entry from before the first call.
InitSession ==
    /\ pc = "session"
    /\ call = NoCall
    /\ result = NoResult
    /\ td = NoTypeDef
    /\ expr = Noop
    /\ context = Null
    /\ resolved = NotRun
    /\ vm = NoVm
    /\ external \in {AnyMap_new, {0}}
    /\ session = [NoSession EXCEPT !.before = external]
    /\ hooked = NoHook
    /\ diagnostic = NoDiagnostic
    /\ sink = NoSink

\* FunctionCall::new on the ExternalEnv of the compilation.
SessionNew ==
    /\ pc = "session"
    /\ session.calls < MaxCalls
    /\ session.emitted = 0
    /\ \E ident \in Idents, abort_on_error \in BOOLEAN,
          arguments \in SessionArgumentLists :
        \E hook \in HooksOf(ident, abort_on_error, arguments) :
          LET r == FunctionCall_new(ident, abort_on_error, arguments, funcs, hook)
              n == session.calls + 1
          IN  \E writes \in IF r.compiled THEN BOOLEAN ELSE {FALSE},
                 error \in ErrorsOf(hook) :
                /\ call' = [ident |-> ident, abort_on_error |-> abort_on_error,
                            arguments |-> arguments]
                /\ result' = r
                /\ hooked' = IF r.compiled
                             THEN CompileHook(external, n, writes, error)
                             ELSE NoHook
                /\ external' = FunctionCall_new_external(external, r, hooked')
                /\ session' = [session EXCEPT
                       !.calls = n,
                       !.built = IF r.tag = "Ok" THEN @ + 1 ELSE @,
                       !.written = IF writes /\ r.tag # "Compilation"
                                   THEN @ \cup {n} ELSE @,
                       !.before = external]
                /\ pc' = IF r.tag = "Ok" THEN "built" ELSE "failed"
    /\ UNCHANGED <<td, expr, context, resolved, vm, diagnostic, sink>>

\* The diagnostic of a failed call is rendered from the labels of its error.
Diagnose ==
    /\ pc = "failed"
    /\ diagnostic' = [labels |-> Error_labels(call, result, hooked.error),
                      notes  |-> Error_notes(result, hooked.error)]
    /\ pc' = "reported"
    /\ UNCHANGED <<call, result, td, expr, context, resolved, vm,
                   external, session, hooked, sink>>

\* The compiler goes on to the next call of the program.
Proceed ==
    /\ pc \in {"built", "reported"}
    /\ pc' = "session"
    /\ call' = NoCall
    /\ result' = NoResult
    /\ hooked' = NoHook
    /\ diagnostic' = NoDiagnostic
    /\ session' = [session EXCEPT !.before = external]
    /\ UNCHANGED <<td, expr, context, resolved, vm, external, sink>>

\* compile_to_vm of the next constructed call, once every call of the program
\* was constructed without an error: compile_arguments runs compile_argument
\* on the side-channel swapped out of ExternalEnv.
SessionEmit ==
    /\ pc = "session"
    /\ session.built = session.calls
    /\ session.emitted < session.built
    /\ \E failed \in BOOLEAN :
         /\ hooked' = CompileHook(external, 0, FALSE, NoError)
         /\ external' = FunctionCall_compile_arguments_external(hooked', failed)
         /\ session' = [session EXCEPT !.emitted = @ + 1, !.before = external]
         /\ pc' = IF failed THEN "rejected" ELSE "session"
    /\ UNCHANGED <<call, result, td, expr, context, resolved, vm, diagnostic, sink>>

NextSession == SessionNew \/ Diagnose \/ Proceed \/ SessionEmit

SpecSession == InitSession /\ [][NextSession]_vars

-----------------------------------------------------------------------------
(* Vocabulary of the properties of new() and type_def().                   *)

\* new() has returned.
Returned == pc # "idle"

\* The call named a registered function.
Registered == \E i \in 1..Len(funcs) : funcs[i].identifier = call.ident

\* The declared parameters of the function the call names.
CallParameters ==
    LET hits == { i \in 1..Len(funcs) : funcs[i].identifier = call.ident }
    IN  funcs[CHOOSE i \in hits : \A j \in hits : i <= j].parameters

\* The written arguments new() resolved to a parameter before it returned.
Processed == 1..Len(result.bound)

\* The parameter the i-th written argument was resolved to.
BoundParameter(i) == CallParameters[result.bound[i]]

\* The binding loop ran to its end without an error.
LoopPassed ==
    result.tag \in {"MissingArgument", "Compilation", "AbortInfallible",
                    "UpdateState", "Ok"}

Keyed(arguments) == { i \in 1..Len(arguments) : arguments[i].keyword # NoKeyword }

Unkeyed(arguments) == { i \in 1..Len(arguments) : arguments[i].keyword = NoKeyword }

\* The argument's Kind intersects the parameter's without being contained in it.
PartialMatch(i) ==
    /\ intersects(BoundParameter(i).kind, call.arguments[i].kind)
    /\ ~is_superset(BoundParameter(i).kind, call.arguments[i].kind)

FullMatch(i) == is_superset(BoundParameter(i).kind, call.arguments[i].kind)

-----------------------------------------------------------------------------
(* C1: mixed keyword and positional binding.                               *)

\* Declaration positions that no keyword argument of the call claims.
FreeSlots(parameters, arguments) ==
    { p \in 1..Len(parameters) :
        \A i \in Keyed(arguments) : arguments[i].keyword # parameters[p].keyword }

\* The n-th smallest element of a set of numbers.
Nth(S, n) == CHOOSE x \in S : Cardinality({ y \in S : y < x }) = n - 1

\* How many unkeyed arguments are written up to and including the i-th.
UnkeyedRank(arguments, i) == Cardinality({ j \in Unkeyed(arguments) : j <= i })

\* C1: in every successfully constructed call that mixes keyword and unkeyed
\* arguments, each unkeyed argument is bound to the first parameter in
\* declaration order that no other argument claims: the r-th unkeyed argument
\* is what the ArgumentList holds for the r-th parameter no keyword claims.
C1_MixedBinding ==
    ( /\ result.tag = "Ok"
      /\ Keyed(call.arguments) # {}
      /\ Unkeyed(call.arguments) # {} )
    => \A i \in Unkeyed(call.arguments) :
         LET free == FreeSlots(CallParameters, call.arguments)
             r    == UnkeyedRank(call.arguments, i)
         IN  /\ r <= Cardinality(free)
             /\ result.list[CallParameters[Nth(free, r)].keyword] = i

-----------------------------------------------------------------------------
(* C3: a partially matching argument and the call's fallibility.           *)

\* C3 as stated: whenever a call is constructed and some supplied argument
\* only partially matches its parameter, type_def().is_fallible() is true.
C3_PartialAlwaysFallible ==
    ( /\ pc = "typed"
      /\ \E i \in Processed : PartialMatch(i) )
    => is_fallible(td)

\* C3 amended: with abort_on_error = false a constructed call with a partially
\* matching argument has a fallible type_def; with abort_on_error = true its
\* type_def is abortable and not fallible.
C3_PartialFallibleUnlessAbort ==
    ( /\ pc = "typed"
      /\ \E i \in Processed : PartialMatch(i) )
    => IF call.abort_on_error
       THEN is_abortable(td) /\ ~is_fallible(td)
       ELSE is_fallible(td) /\ ~is_abortable(td)

\* A constructed, typed call without abort whose only source of fallibility is
\* a partially matching argument.
C3_Witness ==
    /\ pc = "typed"
    /\ ~call.abort_on_error
    /\ result.hook = "infallible"
    /\ \E i \in Processed : PartialMatch(i)
    /\ \A i \in Processed : ~call.arguments[i].fallible

-----------------------------------------------------------------------------
(* C4: abort_on_error on a statically infallible call.                     *)

\* The hook was invoked and returned an inner expression with an infallible
\* TypeDef, and every supplied argument fully matched its parameter.
StaticallyInfallible ==
    /\ result.compiled
    /\ result.hook \in {"infallible", "integer", "update_error"}
    /\ \A i \in Processed : FullMatch(i)

C4_AbortRejected ==
    (Returned /\ call.abort_on_error /\ StaticallyInfallible)
    => result.tag = "AbortInfallible"

C4_AbortOnlyIfFallible ==
    (result.tag = "Ok" /\ call.abort_on_error)
    => \/ \E i \in Processed : PartialMatch(i)
       \/ result.hook = "fallible"

\* C4 as stated: with abort_on_error = true such a call fails with
\* AbortInfallible, with abort_on_error = false it is constructed and is not
\* fallible, and every call constructed with abort_on_error = true has a
\* partially matching argument or a fallible inner expression.
C4_AbortInfallibleAsStated ==
    /\ C4_AbortRejected
    /\ (Returned /\ ~call.abort_on_error /\ StaticallyInfallible)
       => /\ result.tag = "Ok"
          /\ pc = "typed" => ~is_fallible(td)
    /\ C4_AbortOnlyIfFallible

\* C4 amended: with abort_on_error = false the call is constructed, and is not
\* fallible, unless the inner expression's update_state fails, in which case
\* new() returns UpdateState.
C4_AbortInfallible ==
    /\ C4_AbortRejected
    /\ (Returned /\ ~call.abort_on_error /\ StaticallyInfallible)
       => /\ result.tag = IF result.hook = "update_error" THEN "UpdateState" ELSE "Ok"
          /\ pc = "typed" => ~is_fallible(td)
    /\ C4_AbortOnlyIfFallible

\* A call with arguments, all fully matching, rejected for asking to abort.
C4_Witness ==
    /\ result.tag = "AbortInfallible"
    /\ Len(call.arguments) >= 2
    /\ \A i \in Processed : FullMatch(i)

-----------------------------------------------------------------------------
(* C5: the arity check.                                                    *)

\* C5: a call of a registered function with more arguments than declared
\* parameters fails with WrongNumberOfArgs carrying the declared count; no
\* argument was bound or type-checked and the compile() hook was not invoked.
C5_WrongNumberOfArgs ==
    (Returned /\ Registered /\ Len(call.arguments) > Len(CallParameters))
    => /\ result.tag = "WrongNumberOfArgs"
       /\ result.max = Len(CallParameters)
       /\ result.bound = << >>
       /\ result.checked = 0
       /\ result.list = EmptyList
       /\ ~result.compiled
       /\ pc = "failed"

C5_Witness ==
    /\ pc = "failed"
    /\ result.tag = "WrongNumberOfArgs"
    /\ Len(call.arguments) = Len(CallParameters) + 1

-----------------------------------------------------------------------------
(* C6: keyword binding does not depend on the written order.               *)

Reorderings(n) ==
    { f \in [1..n -> 1..n] : \A i, j \in 1..n : f[i] = f[j] => i = j }

\* Every argument carries a keyword, the keywords are pairwise distinct and
\* each is declared by the function called.
AllKeyedDistinctValid ==
    /\ Registered
    /\ Unkeyed(call.arguments) = {}
    /\ \A i, j \in Keyed(call.arguments) :
          call.arguments[i].keyword = call.arguments[j].keyword => i = j
    /\ \A i \in Keyed(call.arguments) :
          \E p \in 1..Len(CallParameters) :
              CallParameters[p].keyword = call.arguments[i].keyword

\* C6: for a call of pairwise distinct, declared keyword arguments that reaches
\* the compile() hook, new() on every permutation of the written arguments
\* reaches the hook too, with an ArgumentList holding the same argument under
\* every keyword and with the same maybe-fallible flag.
C6_KeywordOrderIndependent ==
    (Returned /\ AllKeyedDistinctValid /\ result.compiled)
    => \A sigma \in Reorderings(Len(call.arguments)) :
         LET permuted == [j \in 1..Len(call.arguments) |-> call.arguments[sigma[j]]]
             r == FunctionCall_new(call.ident, call.abort_on_error, permuted,
                                   funcs, result.hook)
         IN  /\ r.compiled
             /\ r.tag = result.tag
             /\ r.maybe_fallible_arguments = result.maybe_fallible_arguments
             /\ \A k \in AllKeywords :
                  IF r.list[k] = 0 THEN result.list[k] = 0
                  ELSE result.list[k] = sigma[r.list[k]]

\* A constructed call of three keyword arguments written against declaration
\* order, one of them only partially matching.
C6_Witness ==
    /\ result.tag = "Ok"
    /\ AllKeyedDistinctValid
    /\ Len(call.arguments) = 3
    /\ call.arguments[1].keyword = "three"
    /\ call.arguments[3].keyword = "one"
    /\ result.maybe_fallible_arguments

-----------------------------------------------------------------------------
(* C7: arguments whose Kind cannot match.                                  *)

\* C7: an argument whose Kind has no intersection with the Kind of the
\* parameter it resolved to makes new() fail with InvalidArgumentKind at that
\* argument, before the compile() hook; so in every constructed call each
\* supplied argument's Kind intersects its parameter's Kind.
C7_InvalidArgumentKind ==
    /\ \A i \in Processed :
          ~intersects(BoundParameter(i).kind, call.arguments[i].kind)
          => /\ result.tag = "InvalidArgumentKind"
             /\ result.at = i
             /\ ~result.compiled
    /\ result.tag = "InvalidArgumentKind"
          => /\ result.at \in Processed
             /\ ~intersects(BoundParameter(result.at).kind,
                            call.arguments[result.at].kind)
    /\ result.tag = "Ok"
          => /\ Len(result.bound) = Len(call.arguments)
             /\ \A i \in Processed :
                  intersects(BoundParameter(i).kind, call.arguments[i].kind)

\* The second argument of a call is rejected for its Kind.
C7_Witness ==
    /\ result.tag = "InvalidArgumentKind"
    /\ result.at = 2
    /\ call.arguments[2].kind = BYTES

-----------------------------------------------------------------------------
(* C8: fallible arguments.                                                 *)

\* C8: a call with a fallible argument is never constructed and never reaches
\* the compile() hook; a fallible argument whose Kind intersects its
\* parameter's makes new() fail with FallibleArgument at that argument.
C8_FallibleArgument ==
    /\ (Returned /\ \E i \in 1..Len(call.arguments) : call.arguments[i].fallible)
          => /\ result.tag # "Ok"
             /\ pc = "failed"
             /\ ~result.compiled
    /\ \A i \in Processed :
          ( /\ call.arguments[i].fallible
            /\ intersects(BoundParameter(i).kind, call.arguments[i].kind) )
          => /\ result.tag = "FallibleArgument"
             /\ result.at = i
    /\ result.tag = "FallibleArgument"
          => /\ result.at \in Processed
             /\ call.arguments[result.at].fallible

\* A fallible argument that otherwise matches is rejected after an accepted one.
C8_Witness ==
    /\ result.tag = "FallibleArgument"
    /\ result.at = 2
    /\ call.arguments[2].kind = INTEGER
    /\ ~result.compiled

-----------------------------------------------------------------------------
(* C9: missing required arguments.                                         *)

\* Required parameters for which the ArgumentList holds no argument.
Unbound ==
    { p \in 1..Len(CallParameters) :
        CallParameters[p].required /\ result.list[CallParameters[p].keyword] = 0 }

\* C9: when the binding loop has passed and some required parameter has no
\* bound argument, new() fails with MissingArgument naming the first such
\* parameter in declaration order and its zero-based position, and the
\* compile() hook is not invoked; when every required parameter is bound,
\* MissingArgument is not returned.
C9_MissingArgument ==
    /\ (LoopPassed /\ Unbound # {})
          => /\ result.tag = "MissingArgument"
             /\ \E p \in Unbound :
                  /\ \A q \in Unbound : p <= q
                  /\ result.keyword = CallParameters[p].keyword
                  /\ result.position = p - 1
             /\ ~result.compiled
    /\ (LoopPassed /\ Unbound = {}) => result.tag # "MissingArgument"
    /\ result.tag = "MissingArgument" => Len(result.bound) = Len(call.arguments)

\* Both required parameters of a call without arguments are missing.
C9_Witness ==
    /\ result.tag = "MissingArgument"
    /\ Cardinality(Unbound) = 2
    /\ result.position = 0

-----------------------------------------------------------------------------
(* C10: undefined functions.                                               *)

\* C10: when no registry entry has the call's identifier, new() fails with
\* Undefined carrying the identifiers of all registry entries in registry
\* order, whatever arguments and abort_on_error flag were supplied; when some
\* entry has it, Undefined is not returned.
C10_Undefined ==
    Returned =>
       IF Registered
       THEN result.tag # "Undefined"
       ELSE /\ result.tag = "Undefined"
            /\ Len(result.idents) = Len(funcs)
            /\ \A i \in 1..Len(funcs) : result.idents[i] = funcs[i].identifier
            /\ ~result.compiled

\* An undefined function called with arguments and abort_on_error.
C10_Witness ==
    /\ result.tag = "Undefined"
    /\ call.abort_on_error
    /\ Len(call.arguments) = 2
    /\ call.arguments[1].fallible

-----------------------------------------------------------------------------
(* C11: unknown keywords.                                                  *)

\* The i-th written argument carries a keyword the function does not declare.
Undeclared(i) ==
    /\ call.arguments[i].keyword # NoKeyword
    /\ \A p \in 1..Len(CallParameters) :
          CallParameters[p].keyword # call.arguments[i].keyword

\* The binding loop got to the i-th written argument: every argument written
\* before it was resolved to a parameter and passed its checks.
Reached(i) ==
    /\ Len(result.bound) >= i - 1
    /\ ~(result.tag \in {"InvalidArgumentKind", "FallibleArgument"} /\ result.at < i)

\* The declared keywords of the function called, in declaration order.
DeclaredKeywords == [p \in 1..Len(CallParameters) |-> CallParameters[p].keyword]

\* C11: a keyword argument whose keyword the function does not declare makes
\* new() fail, when the binding loop gets to it, with UnknownKeyword carrying
\* all declared keywords in declaration order, before the compile() hook; an
\* argument with a declared keyword is never the one UnknownKeyword is
\* returned for, at whatever position it is written.
C11_UnknownKeyword ==
    (Returned /\ Registered /\ Len(call.arguments) <= Len(CallParameters))
    => /\ \A i \in 1..Len(call.arguments) :
            (Reached(i) /\ Undeclared(i))
            => /\ result.tag = "UnknownKeyword"
               /\ result.at = i
               /\ result.keywords = DeclaredKeywords
               /\ ~result.compiled
               /\ pc = "failed"
       /\ result.tag = "UnknownKeyword"
            => /\ result.at \in 1..Len(call.arguments)
               /\ Undeclared(result.at)
               /\ result.keywords = DeclaredKeywords

\* An undeclared keyword written after an accepted keyword argument that is
\* itself written against declaration order.
C11_Witness ==
    /\ result.tag = "UnknownKeyword"
    /\ result.at = 2
    /\ call.arguments[1].keyword = "two"
    /\ call.arguments[2].keyword = "four"
    /\ result.keywords = << "one", "two", "three" >>

-----------------------------------------------------------------------------
(* C12: the static type of an array literal.                               *)

\* C12: the type_def of an array literal of N elements is an array Kind with
\* exactly N positional entries, entry i being the Kind of element i with its
\* own structural detail, and is fallible exactly when some element is; the
\* empty literal has the empty array collection and is infallible.
C12_ArrayTypeDef ==
    (pc # "node" /\ expr.type = "Array")
    => LET N == Len(expr.inner) IN
       /\ td.kind.shapes = {"array"}
       /\ Len(td.kind.known) = N
       /\ \A i \in 1..N :
            /\ td.kind.known[i] = type_def(expr.inner[i]).kind
            /\ expr.inner[i] = Noop => td.kind.known[i] = Kind_null
            /\ expr.inner[i] = UnaryNot(Call(0, << >>))
                 => td.kind.known[i] = Kind_boolean
            /\ expr.inner[i] = ArrayOf(<< Call(0, << >>) >>)
                 => td.kind.known[i] = Kind_array(<< Kind_any >>)
            /\ expr.inner[i] = Call(5, << >>)
                 => td.kind.known[i] = Kind_object(<< "bar" >>, << Kind_null >>)
       /\ is_fallible(td) <=> \E i \in 1..N : is_fallible(type_def(expr.inner[i]))
       /\ N = 0 => td = TypeDefOf(Kind_array(<< >>), FALSE)

\* The literal [null, [get()], obj()] of the unit tests' mixed_array shape:
\* a scalar, a nested array and an object, none fallible.
C12_Witness ==
    /\ pc # "node"
    /\ expr = ArrayOf(<< Noop, ArrayOf(<< Call(0, << >>) >>), Call(5, << >>) >>)
    /\ ~is_fallible(td)
    /\ td.kind.known[2].known = << Kind_any >>

-----------------------------------------------------------------------------
(* C13: the evaluation order of an array literal.                          *)

\* resolve() has returned for the node executed.
Resolved == pc \notin {"node", "checked"}

\* The context the i-th element of the literal executed is evaluated on when
\* the elements run from the first to the last, each on the context the one
\* before it left.
RECURSIVE ContextBefore(_)
ContextBefore(i) ==
    IF i = 1 THEN context
    ELSE resolve(expr.inner[i - 1], ContextBefore(i - 1)).ctx

\* What the i-th element evaluates to in that order.
ElementOutcome(i) == resolve(expr.inner[i], ContextBefore(i))

\* The elements that fail in that order, every element before them succeeding.
FailingElements ==
    { i \in 1..Len(expr.inner) :
        /\ ElementOutcome(i).kind # "Ok"
        /\ \A j \in 1..(i - 1) : ElementOutcome(j).kind = "Ok" }

\* C13: Array::resolve evaluates the elements from the first to the last.
\* When all succeed the result is the array holding at index i the value of
\* element i; when one fails the result is the error of the leftmost failing
\* element, no element to its right is evaluated (the context is the one the
\* failing element left) and no partial array is returned.
C13_ArrayResolve ==
    (Resolved /\ expr.type = "Array")
    => LET N == Len(expr.inner) IN
       IF FailingElements = {}
       THEN /\ resolved.kind = "Ok"
            /\ resolved.value = ArrayValue([i \in 1..N |-> ElementOutcome(i).value])
            /\ resolved.ctx = IF N = 0 THEN context ELSE ElementOutcome(N).ctx
       ELSE \E f \in FailingElements :
            /\ resolved.kind = ElementOutcome(f).kind
            /\ resolved.origin = ElementOutcome(f).origin
            /\ resolved.ctx = ElementOutcome(f).ctx
            /\ resolved.value.t # "array"

\* [del(), !get(), fail()] on a context holding true: del() has cleared the
\* context before !get() reads it and fails, and fail() is not evaluated.
C13_Witness ==
    /\ Resolved
    /\ expr = ArrayOf(<< Call(1, << >>), UnaryNot(Call(0, << >>)), Call(2, << >>) >>)
    /\ context = Bool(TRUE)
    /\ resolved.kind = "Error"
    /\ resolved.origin = "not"
    /\ resolved.ctx = Null

-----------------------------------------------------------------------------
(* C14: the no-op expression.                                              *)

\* C14: on every context Noop::resolve returns null and leaves the context as
\* it was, whether the no-op is the node executed or an element of the array
\* executed, and Noop::type_def is the null Kind, neither fallible nor
\* abortable.
C14_Noop ==
    /\ (expr = Noop /\ pc # "node")
         => /\ td.kind = Kind_null
            /\ ~is_fallible(td)
            /\ ~is_abortable(td)
    /\ (expr = Noop /\ Resolved)
         => /\ resolved.kind = "Ok"
            /\ resolved.value = Null
            /\ resolved.ctx = context
    /\ (expr.type = "Array" /\ Resolved)
         => \A i \in 1..Len(expr.inner) :
              ( /\ expr.inner[i] = Noop
                /\ \A j \in 1..(i - 1) : ElementOutcome(j).kind = "Ok" )
              => /\ ElementOutcome(i) = Ok(Null, ContextBefore(i))
                 /\ resolved.kind = "Ok" => resolved.value.v[i] = Null

\* The no-op executed on a context that holds a value.
C14_Witness ==
    /\ expr = Noop
    /\ context = Bool(TRUE)
    /\ Resolved
    /\ resolved.value = Null
    /\ td.kind = Kind_null

-----------------------------------------------------------------------------
(* C15: errors of a function call at run time.                             *)

\* What the inner expression of the call executed returns on the context.
InnerOutcome == Inner_resolve(expr, context)

\* C15: FunctionCall::resolve returns an Ok of the inner expression as it is.
\* An Error of the inner expression comes back as an Error whose labels are
\* the inner labels followed by one primary label at the call's span, the
\* only label added, whose notes are the inner notes and whose message holds
\* the function's identifier, the span and the inner message.  An Abort of
\* the inner expression ends in a panic, never in a value or an Error.
C15_CallResolve ==
    (Resolved /\ expr.type = "FunctionCall")
    => LET inner == InnerOutcome
           n     == Len(inner.labels)
       IN  CASE inner.kind = "Ok" -> resolved = inner
             [] inner.kind = "Error" ->
                  /\ resolved.kind = "Error"
                  /\ Len(resolved.labels) = n + 1
                  /\ SubSeq(resolved.labels, 1, n) = inner.labels
                  /\ resolved.labels[n + 1].kind = "primary"
                  /\ resolved.labels[n + 1].span = CallSpan
                  /\ resolved.labels[n + 1].message = inner.message
                  /\ resolved.notes = inner.notes
                  /\ resolved.message.ident = stdlib[expr.function_id + 1].identifier
                  /\ resolved.message.start = CallSpan.start
                  /\ resolved.message.end = CallSpan.end
                  /\ resolved.message.inner = << inner.message >>
                  /\ resolved.ctx = inner.ctx
             [] OTHER -> /\ inner.kind = "Abort"
                         /\ resolved.kind = "Panic"

\* echo(fail()): the inner expression's Error already carries the label and
\* the notes of the failed argument.
C15_Witness ==
    /\ Resolved
    /\ expr = Call(4, << Call(2, << >>) >>)
    /\ Len(InnerOutcome.labels) = 1
    /\ Len(resolved.labels) = 2
    /\ resolved.notes = << "fail() always fails" >>
    /\ resolved.message.ident = "echo"

-----------------------------------------------------------------------------
(* C16: every diagnostic has a primary label.                              *)

\* C16: the labels of every error new() returns hold at least one primary
\* label, whatever error of the hook a Compilation wraps.
C16_PrimaryLabel ==
    pc = "reported"
    => \E i \in 1..Len(diagnostic.labels) : diagnostic.labels[i].kind = "primary"

-----------------------------------------------------------------------------
(* C18: the side-channel around the compile() hook.                        *)

\* The compile() hook of the last call has run.
HookRan == hooked.ran /\ pc \in {"built", "failed", "reported"}

\* C18: the hook is given the side-channel ExternalEnv held before the call,
\* ExternalEnv holds an empty one while the hook runs, and after a successful
\* new() ExternalEnv holds what the hook left; over the calls of one
\* compilation each hook sees the entries written by the hooks of all earlier
\* calls.
C18_SideChannel ==
    /\ HookRan => /\ hooked.saw = session.before
                  /\ hooked.during = AnyMap_new
    /\ pc = "built" => external = hooked.left
    /\ HookRan => (session.written \ {session.calls}) \subseteq hooked.saw

-----------------------------------------------------------------------------
(* C19: the side-channel after an error.                                   *)

\* C19: when new() has returned an error, or compile_arguments has during
\* the emission, the entries ExternalEnv held before the call are still in it.
C19_SideChannelKept ==
    pc \in {"failed", "reported", "rejected"}
    => session.before \subseteq external

-----------------------------------------------------------------------------
(* C17: the order of the checks of new().                                  *)

\* The i-th written argument, resolved to a parameter, breaks no rule.
Clean(i) ==
    /\ i \in Processed
    /\ ~Undeclared(i)
    /\ intersects(BoundParameter(i).kind, call.arguments[i].kind)
    /\ ~call.arguments[i].fallible

\* The steps of new() in their order, and the step an error belongs to.
StepOf(tag) ==
    CASE tag = "Undefined"           -> 1
      [] tag = "WrongNumberOfArgs"   -> 2
      [] tag = "UnknownKeyword"      -> 3
      [] tag = "InvalidArgumentKind" -> 4
      [] tag = "FallibleArgument"    -> 5
      [] tag = "MissingArgument"     -> 6
      [] tag = "Compilation"         -> 7
      [] tag = "AbortInfallible"     -> 8
      [] tag = "UpdateState"         -> 9
      [] OTHER                       -> 10

\* C17: new() returns the error of the earliest step the call fails:
\* Undefined; WrongNumberOfArgs; then at the first written argument breaking
\* a rule UnknownKeyword, else InvalidArgumentKind, else FallibleArgument;
\* then MissingArgument; Compilation; AbortInfallible; UpdateState.  The
\* compile() hook is invoked only when every earlier step has passed, and
\* update_state only when the AbortInfallible check has passed.
C17_CheckOrder ==
    Returned =>
    LET step == StepOf(result.tag) IN
    /\ ~Registered <=> step = 1
    /\ Registered =>
         /\ Len(call.arguments) > Len(CallParameters) <=> step = 2
         /\ step \in 3..5 =>
              /\ result.at \in 1..Len(call.arguments)
              /\ \A j \in 1..(result.at - 1) : Clean(j)
              /\ Undeclared(result.at) <=> step = 3
              /\ step \in 4..5 =>
                   ( ~intersects(BoundParameter(result.at).kind,
                                 call.arguments[result.at].kind) <=> step = 4 )
              /\ step = 5 => call.arguments[result.at].fallible
         /\ step >= 6 =>
              /\ \A j \in 1..Len(call.arguments) : Clean(j)
              /\ Unbound # {} <=> step = 6
         /\ step >= 7 =>
              /\ result.hook = "compile_error" <=> step = 7
              /\ step >= 8 =>
                   ( AbortInfallibleCheck(call.abort_on_error,
                                          result.maybe_fallible_arguments,
                                          result.hook) <=> step = 8 )
              /\ step >= 9 => (result.hook = "update_error" <=> step = 9)
    /\ result.compiled <=> step >= 7
    /\ result.updated <=> step >= 9

\* A call breaking several rules at once: it asks to abort, its second
\* argument has a Kind that cannot match and is fallible, and its third
\* carries an undeclared keyword.
C17_Witness ==
    /\ result.tag = "InvalidArgumentKind"
    /\ result.at = 2
    /\ call.abort_on_error
    /\ call.arguments[2].fallible
    /\ Len(call.arguments) = 3
    /\ Undeclared(3)
    /\ ~result.compiled

-----------------------------------------------------------------------------
(* C20: the TypeDef of a constructed call.                                 *)

-----------------------------------------------------------------------------
(* C21: the binding of new() against the binding of resolve_arguments.     *)

\* Function::resolve_arguments(arguments): one entry per declared parameter,
\* in declaration order.  A keyword argument is placed on the parameter it
\* names; the unkeyed arguments then fill, in written order, the parameters
\* that no keyword argument took.  The entry is the written position of the
\* argument (0: None).
resolve_arguments(parameters, arguments) ==
    LET named(p) == { i \in Keyed(arguments) :
                        arguments[i].keyword = parameters[p].keyword }
        free     == { p \in 1..Len(parameters) : named(p) = {} }
        rank(p)  == Cardinality({ q \in free : q <= p })
        unnamed  == Unkeyed(arguments)
    IN  [p \in 1..Len(parameters) |->
           IF named(p) # {}
           THEN CHOOSE i \in named(p) : \A j \in named(p) : j <= i
           ELSE IF rank(p) <= Cardinality(unnamed)
           THEN Nth(unnamed, rank(p))
           ELSE 0]

\* C21: for every successfully constructed call, the binding computed at
\* construction and handed to compile() and the binding recomputed from the
\* retained arguments by resolve_arguments give every declared parameter the
\* same argument, or the same absence.
C21_BindingsAgree ==
    result.tag = "Ok"
    => \A p \in 1..Len(CallParameters) :
         result.list[CallParameters[p].keyword]
           = resolve_arguments(CallParameters, result.arguments)[p]

-----------------------------------------------------------------------------
(* C22: one parameter per supplied argument.                               *)

\* C22: in every successfully constructed call each supplied argument is
\* bound to a parameter of its own: the ArgumentList handed to compile() binds
\* as many parameters as arguments were supplied, and every supplied argument
\* is still what the list holds for the parameter it was resolved to (no
\* argument replaced another).
C22_OneParameterEach ==
    result.tag = "Ok"
    => /\ Cardinality(keywords(result.list)) = Len(call.arguments)
       /\ \A i \in 1..Len(call.arguments) :
            result.list[BoundParameter(i).keyword] = i

-----------------------------------------------------------------------------
(* C23: the positional cursor.                                             *)

\* The binding loop was entered: the function was found and the arity passed.
LoopEntered ==
    Returned /\ result.tag \notin {"None", "Undefined", "WrongNumberOfArgs"}

\* How many written arguments the loop had taken up when new() returned: the
\* ones resolved to a parameter, and the one whose resolution failed.
TakenUp ==
    Len(result.bound)
      + (IF result.tag \in {"UnknownKeyword", "Panic"} THEN 1 ELSE 0)

\* C23: once the arity check has passed, the positional cursor never exceeds
\* the number of arguments processed so far, and so never the number of
\* declared parameters; an unkeyed argument therefore always finds a
\* parameter: the lookup fails only for keyword arguments, with
\* UnknownKeyword, and keyword_span().expect("exists") never panics.
C23_CursorBounded ==
    LoopEntered
    => /\ result.index <= TakenUp
       /\ result.index <= Len(CallParameters)
       /\ result.tag # "Panic"
       /\ result.tag = "UnknownKeyword"
            => call.arguments[result.at].keyword # NoKeyword
       /\ \A i \in Processed \cap Unkeyed(call.arguments) :
            result.bound[i] \in 1..Len(CallParameters)

\* A call with as many arguments as parameters, keyword and unkeyed ones
\* mixed, is constructed with the cursor at the declared parameter count.
C23_Witness ==
    /\ result.tag = "Ok"
    /\ Len(call.arguments) = Len(CallParameters)
    /\ Keyed(call.arguments) # {}
    /\ Unkeyed(call.arguments) # {}
    /\ result.index = Len(CallParameters)

-----------------------------------------------------------------------------
(* C24: the bytecode of a call.                                            *)

\* Bytecode was emitted for the node without an error.
Emitted == pc \in {"compiled", "halted"}

ParameterMarkers == {"MoveStaticParameter", "MoveParameter", "EmptyParameter"}

\* The positions of the parameter markers in the emitted code.  The arguments
\* of the calls executed as a whole node are calls of functions without
\* parameters, constants or absent, so every marker is the call's own.
Markers == { j \in 1..Len(vm.code) : vm.code[j].op \in ParameterMarkers }

\* Where the code of the i-th declared parameter begins: after the marker of
\* the parameter before it and that marker's primitive.
SegmentStart(i) ==
    IF i = 1 THEN 1
    ELSE LET j == Nth(Markers, i - 1)
         IN  IF vm.code[j].op = "MoveStaticParameter" THEN j + 2 ELSE j + 1

\* The declared parameters of the called function, and whether the function
\* precompiled the argument of the i-th.
ExprParameters == stdlib[expr.function_id + 1].parameters

Precompiled(i) ==
    compile_argument(expr.function_id, ExprParameters[i].keyword, expr.inner[i])

\* The bytecode the argument emits on its own into a program that already
\* holds the constants added before it.
ArgumentCode(i) ==
    LET from   == SegmentStart(i)
        before == Cardinality({ k \in 1..(from - 1) : vm.code[k].op = "Constant" })
    IN  compile_to_vm(expr.inner[i],
            [EmptyProgram EXCEPT !.constants = SubSeq(vm.constants, 1, before)]).code

\* C24: the bytecode of a call holds, for every declared parameter in
\* declaration order, exactly one parameter marker: MoveStaticParameter with
\* the index of the static just added when compile_argument precompiled the
\* argument, the argument's own bytecode and MoveParameter when it is dynamic,
\* EmptyParameter when it is absent; then one Call with the registry index and
\* the start and the end of the call's span.  The markers are as many as the
\* declared parameters, whatever arguments were supplied.
C24_CallBytecode ==
    (Emitted /\ expr.type = "FunctionCall")
    => LET n    == Len(ExprParameters)
           last == Len(vm.code)
       IN  /\ Cardinality(Markers) = n
           /\ \A i \in 1..n :
                LET j      == Nth(Markers, i)
                    from   == SegmentStart(i)
                    rank   == Cardinality({ q \in 1..i : Precompiled(q) # None })
                IN  IF Precompiled(i) # None
                    THEN /\ j = from
                         /\ vm.code[j].op = "MoveStaticParameter"
                         /\ vm.code[j + 1] = Primitive(rank - 1)
                         /\ vm.statics[rank] = Precompiled(i)
                    ELSE IF expr.inner[i] = Absent
                    THEN /\ j = from
                         /\ vm.code[j].op = "EmptyParameter"
                    ELSE /\ vm.code[j].op = "MoveParameter"
                         /\ SubSeq(vm.code, from, j - 1) = ArgumentCode(i)
           /\ Len(vm.statics) = Cardinality({ q \in 1..n : Precompiled(q) # None })
           /\ SegmentStart(n + 1) = last - 3
           /\ SubSeq(vm.code, last - 3, last)
                = << OpCode("Call"), Primitive(expr.function_id),
                     Primitive(CallSpan.start), Primitive(CallSpan.end) >>

\* pick(null, del()) is emitted: a precompiled pattern and a dynamic value.
C24_Witness ==
    /\ Emitted
    /\ expr = Call(6, << Noop, Call(1, << >>) >>)
    /\ vm.code[1].op = "MoveStaticParameter"
    /\ vm.code[Len(vm.code) - 4].op = "MoveParameter"

-----------------------------------------------------------------------------
(* C25: the bytecode of an array literal.                                  *)

\* The machine run until it halts.
RECURSIVE Run(_)
Run(m) == IF m.outcome.kind # "None" THEN m ELSE Run(Step(m))

\* How many instructions the i-th child emits.
ChildLen(i) == Len(compile_to_vm(expr.inner[i], EmptyProgram).code)

\* Where the code of the i-th child begins when the children after it come
\* first.
RECURSIVE ChildStart(_)
ChildStart(i) ==
    IF i = Len(expr.inner) THEN 1 ELSE ChildStart(i + 1) + ChildLen(i + 1)

\* The bytecode the i-th child emits into a program that already holds the
\* constants added before it.
ChildCode(i) ==
    LET from   == ChildStart(i)
        before == Cardinality({ k \in 1..(from - 1) : vm.code[k].op = "Constant" })
    IN  compile_to_vm(expr.inner[i],
            [EmptyProgram EXCEPT !.constants = SubSeq(vm.constants, 1, before)]).code

\* The machine after it has run the code of the i-th child on its own, in the
\* context the children after it left behind.
RECURSIVE ChildRun(_)
ChildRun(i) ==
    LET ctx == IF i = Len(expr.inner) THEN context ELSE ChildRun(i + 1).outcome.ctx
    IN  Run(Load(compile_to_vm(expr.inner[i], EmptyProgram), ctx))

\* C25: the bytecode of an array literal of N children is the children's
\* bytecode in reverse declaration order, then one CreateArray and the
\* primitive N; run on the stack machine it pops the N values and leaves one
\* array whose index i holds the value of child i, for every N from 0 on.
C25_ArrayBytecode ==
    (Emitted /\ expr.type = "Array")
    => LET n    == Len(expr.inner)
           last == Len(vm.code)
       IN  /\ \A i \in 1..n :
                SubSeq(vm.code, ChildStart(i), ChildStart(i) + ChildLen(i) - 1)
                  = ChildCode(i)
           /\ last = (IF n = 0 THEN 0 ELSE ChildStart(1) + ChildLen(1) - 1) + 2
           /\ vm.code[last - 1] = OpCode("CreateArray")
           /\ vm.code[last] = Primitive(n)
           /\ (vm.ip = last - 1 /\ vm.outcome.kind = "None")
                => Len(vm.stack) = n
           /\ (pc = "halted" /\ vm.outcome.kind = "Ok")
                => /\ Len(vm.stack) = 1
                   /\ vm.outcome.value.t = "array"
                   /\ Len(vm.outcome.value.v) = n
                   /\ \A i \in 1..n :
                        vm.outcome.value.v[i] = ChildRun(i).outcome.value

\* [del(), !get(), null] run on the context true: the children run from the
\* last to the first, and each value lands on its child's index.
C25_Witness ==
    /\ pc = "halted"
    /\ expr = ArrayOf(<< Call(1, << >>), UnaryNot(Call(0, << >>)), Noop >>)
    /\ context = Bool(TRUE)
    /\ vm.outcome.value = ArrayValue(<< Bool(TRUE), Bool(FALSE), Null >>)

-----------------------------------------------------------------------------
(* A call constructed against the registry, then run on both backends.     *)

\* The identifiers a call may name: every registered one (get is registered
\* twice) and an unregistered one.
DispatchIdents == { stdlib[i].identifier : i \in 1..Len(stdlib) } \cup {"nope"}

\* Written arguments: the constant null, unkeyed or under a keyword.
DispatchArguments ==
    { Argument(k, NULL, FALSE) : k \in {NoKeyword, "pattern", "value"} }

DispatchArgumentLists == UNION { [1..n -> DispatchArguments] : n \in 0..2 }

\* The node new() returned as the backends see it: the registry index, and
\* the retained arguments resolved to declaration order.
CallNode(r, registry) ==
    LET parameters == registry[r.function_id + 1].parameters
        bound      == resolve_arguments(parameters, r.arguments)
    IN  Call(r.function_id,
             [p \in 1..Len(parameters) |-> IF bound[p] = 0 THEN Absent ELSE Noop])

InitDispatch ==
    /\ pc = "call"
    /\ call = NoCall
    /\ result = NoResult
    /\ td = NoTypeDef
    /\ expr = Noop
    /\ context \in Contexts
    /\ resolved = NotRun
    /\ vm = NoVm
    /\ external = AnyMap_new
    /\ session = NoSession
    /\ hooked = NoHook
    /\ diagnostic = NoDiagnostic
    /\ sink = NoSink

\* FunctionCall::new against the registry the machine is built with.
DispatchNew ==
    /\ pc = "call"
    /\ \E ident \in DispatchIdents, arguments \in DispatchArgumentLists :
         /\ call' = [ident |-> ident, abort_on_error |-> FALSE,
                     arguments |-> arguments]
         /\ result' = FunctionCall_new(ident, FALSE, arguments, stdlib, "infallible")
         /\ expr' = IF result'.tag = "Ok" THEN CallNode(result', stdlib) ELSE expr
         /\ pc' = IF result'.tag = "Ok" THEN "checked" ELSE "failed"
    /\ UNCHANGED <<td, context, resolved, vm, sessionVars>>

NextDispatch == DispatchNew \/ Resolve \/ CompileToVm \/ VmStep

SpecDispatch == InitDispatch /\ [][NextDispatch]_vars

-----------------------------------------------------------------------------
(* C26: dispatch by registry index.                                        *)

\* The registry positions registered under the identifier the call names.
Homonyms == { i \in 1..Len(stdlib) : stdlib[i].identifier = call.ident }

FirstHomonym == CHOOSE i \in Homonyms : \A j \in Homonyms : i <= j

\* C26: the function_id of a constructed call is the smallest registry index
\* whose identifier is the call's; compile_to_vm finds the function under that
\* index and the Call opcode carries it; and with the same ordered registry at
\* run time, the one function invoked is the one at that index, on either
\* backend.
C26_Dispatch ==
    result.tag = "Ok"
    => /\ result.function_id + 1 \in Homonyms
       /\ \A i \in Homonyms : result.function_id + 1 <= i
       /\ expr.function_id = result.function_id
       /\ pc # "rejected"
       /\ Resolved
            => resolved = FunctionCall_resolve(Call(FirstHomonym - 1, expr.inner), context)
       /\ Emitted
            => SubSeq(vm.code, Len(vm.code) - 3, Len(vm.code) - 2)
                 = << OpCode("Call"), Primitive(result.function_id) >>
       /\ pc = "halted" => vm.invoked = << result.function_id >>

\* get() is registered twice; the call runs the first one, which reads the
\* context, not the second, which returns null.
C26_Witness ==
    /\ pc = "halted"
    /\ call.ident = "get"
    /\ Cardinality(Homonyms) = 2
    /\ context = Bool(TRUE)
    /\ vm.invoked = << 0 >>
    /\ vm.outcome.value = Bool(TRUE)
    /\ resolved.value = Bool(TRUE)

-----------------------------------------------------------------------------
(* C27: the placeholder call.                                              *)

\* C27: the call built by FunctionCall::noop() behaves as a Noop on both
\* backends: resolve() returns null, type_def() is infallible and not
\* abortable, and its bytecode is emitted and leaves null on the stack
\* without invoking any function of the registry.
C27_NoopCall ==
    expr = FunctionCall_noop
    => /\ pc # "node" => (~is_fallible(td) /\ ~is_abortable(td))
       /\ Resolved => resolved = Ok(Null, context)
       /\ pc # "rejected"
       /\ Emitted => \A j \in 1..Len(vm.code) : vm.code[j].op # "Call"
       /\ pc = "halted" => (vm.outcome = Ok(Null, context) /\ vm.invoked = << >>)

-----------------------------------------------------------------------------
(* One call and the diagnostic of its error.                               *)

\* The registries the call is compiled against: none, the functions in
\* either order.
Registries == { << >>, funcs, << funcs[2], funcs[1] >> }

\* The identifiers a call may name: those of Idents and another unregistered
\* one, as near to test as to need.
ReportIdents == Idents \cup {"neat"}

InitReport ==
    /\ pc = "idle"
    /\ call = NoCall
    /\ result = NoResult
    /\ td = NoTypeDef
    /\ expr = Noop
    /\ context = Null
    /\ resolved = NotRun
    /\ vm = NoVm
    /\ external = AnyMap_new
    /\ session = NoSession
    /\ hooked = NoHook
    /\ diagnostic = NoDiagnostic
    /\ sink = NoSink

\* FunctionCall::new against one of the registries; a hook that fails returns
\* one of the inner errors.
ReportNew ==
    /\ pc = "idle"
    /\ \E registry \in Registries, ident \in ReportIdents,
          abort_on_error \in BOOLEAN, arguments \in SessionArgumentLists :
        \E hook \in HooksOf(ident, abort_on_error, arguments) :
          LET r == FunctionCall_new(ident, abort_on_error, arguments, registry, hook)
          IN  \E error \in ErrorsOf(IF r.compiled THEN hook ELSE "none") :
                /\ call' = [ident |-> ident, abort_on_error |-> abort_on_error,
                            arguments |-> arguments]
                /\ result' = r
                /\ hooked' = IF r.compiled
                             THEN CompileHook(external, 1, FALSE, error)
                             ELSE NoHook
                /\ pc' = IF r.tag = "Ok" THEN "built" ELSE "failed"
    /\ UNCHANGED <<td, expr, context, resolved, vm, external, session, diagnostic,
                   sink>>

NextReport == ReportNew \/ Diagnose

SpecReport == InitReport /\ [][NextReport]_vars

-----------------------------------------------------------------------------
(* C28: the labels and notes of a Compilation error.                       *)

\* The error of the hook that the Compilation error wraps.
Wrapped == hooked.error

\* C28: the labels of a Compilation error are the labels of the wrapped
\* error, as many, in the same order, each with the same text and the same
\* primary or context role and with the call's span for its span; its notes
\* are the notes of the wrapped error.
C28_CompilationLabels ==
    (pc = "reported" /\ result.tag = "Compilation")
    => /\ Len(diagnostic.labels) = Len(Wrapped.labels)
       /\ \A i \in 1..Len(Wrapped.labels) :
            /\ diagnostic.labels[i].message = Wrapped.labels[i].message
            /\ diagnostic.labels[i].kind = Wrapped.labels[i].kind
            /\ diagnostic.labels[i].span = CallSpan
       /\ diagnostic.notes = Wrapped.notes

\* A hook error of two labels at two spans, neither the call's, and two notes.
C28_Witness ==
    /\ pc = "reported"
    /\ result.tag = "Compilation"
    /\ Len(Wrapped.labels) = 2
    /\ Wrapped.labels[1].span # Wrapped.labels[2].span
    /\ \A i \in 1..2 : Wrapped.labels[i].span # CallSpan
    /\ Wrapped.labels[1].kind = "context"
    /\ diagnostic.labels[2].kind = "primary"
    /\ Len(diagnostic.notes) = 2

-----------------------------------------------------------------------------
(* C29: the suggestion of an Undefined error.                              *)

\* The edit distance from the identifier the call names to the i-th
\* identifier of the registry.
Score(i) == distance(chars(call.ident), chars(result.idents[i]))

\* C29: the labels of an Undefined error are one primary label at the span of
\* the identifier and, when the registry is not empty, one context label that
\* suggests a registered identifier of least edit distance to the unknown
\* one, the earliest of the registry among several; with an empty registry
\* there is no suggestion.
C29_Suggestion ==
    (pc = "reported" /\ result.tag = "Undefined")
    => LET n == Len(result.idents) IN
       /\ diagnostic.labels[1].kind = "primary"
       /\ diagnostic.labels[1].span = IdentSpan
       /\ Len(diagnostic.labels) = (IF n = 0 THEN 1 ELSE 2)
       /\ n > 0
            => /\ diagnostic.labels[2].kind = "context"
               /\ \E g \in 1..n :
                    /\ diagnostic.labels[2].message = DidYouMean(result.idents[g])
                    /\ \A j \in 1..n : Score(g) <= Score(j)
                    /\ \A j \in 1..(g - 1) : Score(j) > Score(g)

\* neat is as far from need as from test; need is registered first and is
\* the one suggested.
C29_Witness ==
    /\ pc = "reported"
    /\ result.tag = "Undefined"
    /\ call.ident = "neat"
    /\ result.idents = << "need", "test" >>
    /\ Score(1) = Score(2)
    /\ diagnostic.labels[2].message = DidYouMean("need")

-----------------------------------------------------------------------------
(* TracesSink::run_inner: the request pipeline.                            *)

\* How many batches the input yields.
MaxBatches == 2

\* What the incremental request builder yields for one request: Ok(req), or
\* an Err whose into_parts() are the message, the reason and the number of
\* dropped events.
OkRequest ==
    [ok |-> TRUE, message |-> "", reason |-> "", dropped_events |-> 0]

ErrRequest(message, reason, dropped_events) ==
    [ok |-> FALSE, message |-> message, reason |-> reason,
     dropped_events |-> dropped_events]

Requests ==
    { OkRequest,
      ErrRequest("unable to encode", "encoding failed", 1),
      ErrRequest("payload too big", "too large", 2) }

\* The Vec<Result<..>> the builder yields for one batch: one result or two.
BatchResults == UNION { [1..m -> Requests] : m \in 1..2 }

\* What the builder yields for the batches of the input, batch after batch.
Batches == UNION { [1..n -> BatchResults] : n \in 0..MaxBatches }

\* .flat_map(stream::iter): the results of the batches one after the other,
\* each with its place in the order produced.
RECURSIVE flat_map(_)
flat_map(batches) ==
    IF Len(batches) = 0 THEN << >>
    ELSE LET front == flat_map(SubSeq(batches, 1, Len(batches) - 1))
             last  == batches[Len(batches)]
         IN  front \o [i \in 1..Len(last) |->
                         [id |-> Len(front) + i, request |-> last[i]]]

\* emit!(DatadogTracesEncodingError { message, dropped_events, reason })
DatadogTracesEncodingError(message, dropped_events, reason) ==
    [message |-> message, dropped_events |-> dropped_events, reason |-> reason]

\* Faulty variant: a failed request is reported and handed on all the same.
filter_map_Forwarding(item) ==
    IF item.request.ok
    THEN [some |-> << item >>, events |-> << >>]
    ELSE [some |-> << item >>,
          events |-> << DatadogTracesEncodingError(item.request.message,
                            item.request.dropped_events, item.request.reason) >>]

\* The closure of .filter_map(): Some(req) for an Ok, and for an Err one
\* event and None.
filter_map(item) ==
    IF item.request.ok
    THEN [some |-> << item >>, events |-> << >>]
    ELSE [some |-> << >>,
          events |-> << DatadogTracesEncodingError(item.request.message,
                            item.request.dropped_events, item.request.reason) >>]

InitSink ==
    /\ pc = "sink"
    /\ call = NoCall
    /\ result = NoResult
    /\ td = NoTypeDef
    /\ expr = Noop
    /\ context = Null
    /\ resolved = NotRun
    /\ vm = NoVm
    /\ external = AnyMap_new
    /\ session = NoSession
    /\ hooked = NoHook
    /\ diagnostic = NoDiagnostic
    /\ \E batches \in Batches : sink = [NoSink EXCEPT !.batches = batches]

\* The driver polls the stream: the next result passes the filter, and a
\* request that comes through is the driver's.
SinkPoll ==
    /\ pc = "sink"
    /\ sink.polled < Len(flat_map(sink.batches))
    /\ LET r == filter_map(flat_map(sink.batches)[sink.polled + 1])
       IN  sink' = [sink EXCEPT !.polled = @ + 1,
                                !.handed = @ \o r.some,
                                !.events = @ \o r.events]
    /\ UNCHANGED <<pc, call, result, td, expr, context, resolved, vm,
                   external, session, hooked, diagnostic>>

\* The driver calls the service with the next request it holds.
DriverCall ==
    /\ pc = "sink"
    /\ sink.called < Len(sink.handed)
    /\ sink' = [sink EXCEPT !.called = @ + 1]
    /\ UNCHANGED <<pc, call, result, td, expr, context, resolved, vm,
                   external, session, hooked, diagnostic>>

\* The stream is exhausted and every request was passed to the service:
\* sink.run() returns.
SinkFinish ==
    /\ pc = "sink"
    /\ sink.polled = Len(flat_map(sink.batches))
    /\ sink.called = Len(sink.handed)
    /\ pc' = "finished"
    /\ sink' = [sink EXCEPT !.done = TRUE]
    /\ UNCHANGED <<call, result, td, expr, context, resolved, vm,
                   external, session, hooked, diagnostic>>

NextSink == SinkPoll \/ DriverCall \/ SinkFinish

SpecSink == InitSink /\ [][NextSink]_vars

\* The task that runs the sink is polled until run_inner returns.
SpecSinkLive == SpecSink /\ WF_vars(NextSink)

-----------------------------------------------------------------------------
(* C30: requests handed on, requests dropped.                              *)

\* The results taken from the stream so far, in the order produced.
Taken == SubSeq(flat_map(sink.batches), 1, sink.polled)

IsOk(item) == item.request.ok

IsErr(item) == ~item.request.ok

\* The event that reports a failed request.
EventOf(item) ==
    [message |-> item.request.message,
     dropped_events |-> item.request.dropped_events,
     reason |-> item.request.reason]

\* Of the results taken so far: the Ok ones are what the driver was handed,
\* in the order produced; the Err ones have one event each, in that order,
\* carrying their message, reason and dropped-event count; and the service
\* was called with requests only.
SinkSafe ==
    /\ sink.handed = SelectSeq(Taken, IsOk)
    /\ LET failed == SelectSeq(Taken, IsErr)
       IN  sink.events = [i \in 1..Len(failed) |-> EventOf(failed[i])]
    /\ sink.called <= Len(sink.handed)
    /\ \A i \in 1..sink.called : sink.handed[i].request.ok

\* Every result the builder yields was taken, whatever came before it, and
\* every Ok request was passed to the service.
SinkComplete ==
    /\ sink.polled = Len(flat_map(sink.batches))
    /\ sink.called = Len(SelectSeq(flat_map(sink.batches), IsOk))
    /\ sink.done

\* C30: in run_inner every request the builder yields as Ok is handed to the
\* service driver, in the order produced; every request yielded as Err is
\* dropped after exactly one DatadogTracesEncodingError with its message,
\* reason and dropped-event count, never reaches the service, and does not
\* stop the requests after it from being processed.
C30_Requests == [] SinkSafe /\ <> SinkComplete

\* An Err between two Ok requests: one event, and both requests reached the
\* service, the later one after the failure.
C30_Witness ==
    /\ pc = "finished"
    /\ Len(flat_map(sink.batches)) = 3
    /\ flat_map(sink.batches)[1].request.ok
    /\ ~flat_map(sink.batches)[2].request.ok
    /\ flat_map(sink.batches)[3].request.ok
    /\ Len(sink.events) = 1
    /\ sink.called = 2
    /\ sink.handed[2].id = 3

====
